---------------------------- MODULE Spec2Model ----------------------------
(***************************************************************************)
(* potnet: the network companion of the pot jail manager.                  *)
(*                                                                         *)
(* One invocation of the potnet binary (src/src/bin/potnet.rs) reads the   *)
(* system configuration, the bridge files and the jail directories, builds *)
(* the IP database (a BTreeMap from address to optional label) and answers *)
(* one query.  The on-disk configuration is the initial state; the steps   *)
(* of main() are the actions.                                              *)
(***************************************************************************)
EXTENDS Integers, Sequences, FiniteSets, TLC

VARIABLES
    default_conf,   \* SystemConf parsed from pot.default.conf
    pot_conf,       \* SystemConf parsed from pot.conf (the overrides)
    bridge_files,   \* bridge files under fs_root/bridges, in traversal order
    jail_files,     \* jail directories under fs_root/jails, in traversal order
    pc,             \* position of the invocation
    conf,           \* the merged SystemConf
    ip_db,          \* the main IPDB: address -> label
    cmd,            \* the subcommand and its arguments
    out,            \* what the subcommand printed
    result,         \* how the process ended
    in_host_number, \* get_network_size: its argument
    in_overflow_checks, \* get_network_size: whether the build checks overflow
    gns,            \* get_network_size: max_hosts, result and where the loop is
    promoted,       \* PotSystemConfig::try_from: its result
    in_line,        \* get_value: the line
    in_target,      \* get_value: the type T the value is parsed to
    ret_value,      \* get_value: its result
    ret_bridges,    \* bridge::get_bridges_list: its result
    ret_pots,       \* get_pot_conf_list: its result, or that it panicked
    ncpu,           \* potcpu: what sysctl -n hw.ncpu yields
    pot_cpusets,    \* potcpu: the CPU list cpuset -g -j yields for each running jail
    in_a,           \* octect_incr: the four octets it is given
    ret_a,          \* octect_incr: the four octets it leaves
    in_lines,       \* from_str of a configuration file: its lines
    ret_partial     \* from_str of a configuration file: its result

vars == <<default_conf, pot_conf, bridge_files, jail_files, pc, conf, ip_db, cmd, out,
          result, in_host_number, in_overflow_checks, gns, promoted, in_line, in_target,
          ret_value, ret_bridges, ret_pots, ncpu, pot_cpusets, in_a, ret_a, in_lines,
          ret_partial>>

\* the variables of potcpu, of octect_incr and of from_str
cpu_vars == <<ncpu, pot_cpusets>>

octet_vars == <<in_a, ret_a>>

file_vars == <<in_lines, ret_partial>>

-----------------------------------------------------------------------------
(* Option<T>: None is the empty sequence, Some(x) the one-element sequence. *)

None == <<>>

Some(x) == <<x>>

is_some(o) == Len(o) = 1

unwrap(o) == o[1]

-----------------------------------------------------------------------------
(* std::net::IpAddr.  fam is 4 or 6; val is the address as an unsigned      *)
(* integer.  Ord on IpAddr puts every V4 before every V6.                   *)

V4(a, b, c, d) == [fam |-> 4, val |-> ((a * 256 + b) * 256 + c) * 256 + d]

V6(n) == [fam |-> 6, val |-> n]

\* an order that compares the numbers first and the families last
AddrLT_by_value(x, y) == x.val < y.val \/ (x.val = y.val /\ x.fam < y.fam)

AddrLT(x, y) == x.fam < y.fam \/ (x.fam = y.fam /\ x.val < y.val)

Pow2(n) == 2 ^ n

\* width of an address family, as matched in get_prefix_length
V4Bits == 32

V6Bits == 128

FamBits(fam) == IF fam = 4 THEN V4Bits ELSE V6Bits

-----------------------------------------------------------------------------
(* ipnet::IpNet: an address and a prefix length.  The address keeps its     *)
(* host bits as written; network() masks them off.                          *)

IpNet(a, p) == [addr |-> a, prefix_len |-> p]

HostBits(net) == FamBits(net.addr.fam) - net.prefix_len

network(net) ==
    [fam |-> net.addr.fam,
     val |-> (net.addr.val \div Pow2(HostBits(net))) * Pow2(HostBits(net))]

broadcast(net) ==
    [fam |-> net.addr.fam,
     val |-> network(net).val + Pow2(HostBits(net)) - 1]

contains(net, ip) ==
    /\ ip.fam = net.addr.fam
    /\ network(net).val <= ip.val
    /\ ip.val <= broadcast(net).val

\* IpNet::hosts(): for V4 with a prefix shorter than 31 the network and the
\* broadcast address are left out; V4 /31, /32 and every V6 network yield
\* the whole range.
hosts(net) ==
    LET trim  == net.addr.fam = 4 /\ net.prefix_len < 31
        start == IF trim THEN network(net).val + 1 ELSE network(net).val
        end   == IF trim THEN broadcast(net).val - 1 ELSE broadcast(net).val
    IN  [i \in 1..(end - start + 1) |-> [fam |-> net.addr.fam, val |-> start + i - 1]]

\* IpNet::subnets(new_prefix_len): Err(PrefixLenError) (here None) when the
\* new prefix is shorter than the network's or longer than the family
\* allows; otherwise the subnets in address order.
subnets(net, new_prefix_len) ==
    IF net.prefix_len > new_prefix_len \/ new_prefix_len > FamBits(net.addr.fam)
    THEN None
    ELSE LET size == Pow2(FamBits(net.addr.fam) - new_prefix_len)
             n    == Pow2(new_prefix_len - net.prefix_len)
         IN  Some([i \in 1..n |->
                    IpNet([fam |-> net.addr.fam,
                           val |-> network(net).val + (i - 1) * size],
                          new_prefix_len)])

-----------------------------------------------------------------------------
(* SystemConf: eight optional fields.                                       *)

SystemConf_default ==
    [zfs_root |-> None, fs_root |-> None, network |-> None, netmask |-> None,
     gateway |-> None, ext_if |-> None, dns_name |-> None, dns_ip |-> None]

is_valid(c) ==
    /\ is_some(c.zfs_root)
    /\ is_some(c.fs_root)
    /\ is_some(c.network)
    /\ is_some(c.netmask)
    /\ is_some(c.gateway)
    /\ is_some(c.ext_if)
    /\ is_some(c.dns_name)
    /\ is_some(c.dns_ip)

\* merge with the sides exchanged: a field of self that is present is kept
merge_self_first(self, rhs) ==
    [zfs_root |-> IF is_some(self.zfs_root) THEN self.zfs_root ELSE rhs.zfs_root,
     fs_root  |-> IF is_some(self.fs_root) THEN self.fs_root ELSE rhs.fs_root,
     network  |-> IF is_some(self.network) THEN self.network ELSE rhs.network,
     netmask  |-> IF is_some(self.netmask) THEN self.netmask ELSE rhs.netmask,
     gateway  |-> IF is_some(self.gateway) THEN self.gateway ELSE rhs.gateway,
     ext_if   |-> IF is_some(self.ext_if) THEN self.ext_if ELSE rhs.ext_if,
     dns_name |-> IF is_some(self.dns_name) THEN self.dns_name ELSE rhs.dns_name,
     dns_ip   |-> IF is_some(self.dns_ip) THEN self.dns_ip ELSE rhs.dns_ip]

\* self.merge(rhs): every field of rhs that is present replaces self's
merge(self, rhs) ==
    [zfs_root |-> IF is_some(rhs.zfs_root) THEN Some(unwrap(rhs.zfs_root)) ELSE self.zfs_root,
     fs_root  |-> IF is_some(rhs.fs_root) THEN Some(unwrap(rhs.fs_root)) ELSE self.fs_root,
     network  |-> IF is_some(rhs.network) THEN rhs.network ELSE self.network,
     netmask  |-> IF is_some(rhs.netmask) THEN rhs.netmask ELSE self.netmask,
     gateway  |-> IF is_some(rhs.gateway) THEN rhs.gateway ELSE self.gateway,
     ext_if   |-> IF is_some(rhs.ext_if) THEN Some(unwrap(rhs.ext_if)) ELSE self.ext_if,
     dns_name |-> IF is_some(rhs.dns_name) THEN Some(unwrap(rhs.dns_name)) ELSE self.dns_name,
     dns_ip   |-> IF is_some(rhs.dns_ip) THEN rhs.dns_ip ELSE self.dns_ip]

\* SystemConf::new() once both files were read and parsed
SystemConf_new(dconf, pconf) == merge(dconf, pconf)

\* PotSystemConfig::try_from(psc): Ok(PotSystemConfig) when psc.is_valid(),
\* Err(IncompleteSystemConf) otherwise.  dns follows dns_ip; the unwrap() of
\* an absent dns_name would panic.
try_from(psc) ==
    IF is_valid(psc)
    THEN IF is_some(psc.dns_ip) /\ ~is_some(psc.dns_name)
         THEN [st |-> "panic", v |-> None]
         ELSE [st |-> "Ok",
               v |-> Some([zfs_root |-> unwrap(psc.zfs_root),
                           fs_root  |-> unwrap(psc.fs_root),
                           network  |-> unwrap(psc.network),
                           netmask  |-> unwrap(psc.netmask),
                           gateway  |-> unwrap(psc.gateway),
                           ext_if   |-> unwrap(psc.ext_if),
                           dns      |-> IF is_some(psc.dns_ip)
                                        THEN Some([pot_name |-> unwrap(psc.dns_name),
                                                   ip |-> unwrap(psc.dns_ip)])
                                        ELSE None])]
    ELSE [st |-> "IncompleteSystemConf", v |-> None]

-----------------------------------------------------------------------------
(* Bridges.  A bridge file is held as the three values its lines parse to.  *)

\* BridgeConf::from_str: Ok only when name, net and gateway are all present
BridgeConf_from_str(f) ==
    IF is_some(f.name) /\ is_some(f.network) /\ is_some(f.gateway)
    THEN Some([name |-> unwrap(f.name), network |-> unwrap(f.network),
               gateway |-> unwrap(f.gateway)])
    ELSE None

RECURSIVE get_bridges_list(_)
get_bridges_list(files) ==
    IF files = <<>> THEN <<>>
    ELSE LET b == BridgeConf_from_str(Head(files))
         IN  (IF is_some(b) THEN <<unwrap(b)>> ELSE <<>>) \o get_bridges_list(Tail(files))

\* The bridge module (bridge.rs) parses a file to a PartialBridgeConf and
\* promotes that: BridgeConf::try_from refuses a gateway outside the network.
PartialBridgeConf_is_valid(value) ==
    is_some(value.name) /\ is_some(value.network) /\ is_some(value.gateway)

\* try_from without the test of network.contains(&gateway)
BridgeConf_try_from_unchecked(value) ==
    IF ~PartialBridgeConf_is_valid(value)
    THEN [st |-> "BridgeConfError", v |-> None]
    ELSE [st |-> "Ok",
          v |-> Some([name |-> unwrap(value.name), network |-> unwrap(value.network),
                      gateway |-> unwrap(value.gateway)])]

BridgeConf_try_from(value) ==
    IF ~PartialBridgeConf_is_valid(value)
    THEN [st |-> "BridgeConfError", v |-> None]
    ELSE IF ~contains(unwrap(value.network), unwrap(value.gateway))
    THEN [st |-> "BridgeConfError", v |-> None]
    ELSE [st |-> "Ok",
          v |-> Some([name |-> unwrap(value.name), network |-> unwrap(value.network),
                      gateway |-> unwrap(value.gateway)])]

\* bridge::get_bridges_list: the files that parse, in the order of the walk
RECURSIVE bridge_get_bridges_list(_)
bridge_get_bridges_list(path_list) ==
    IF path_list = <<>> THEN <<>>
    ELSE LET bridge_conf == BridgeConf_try_from(Head(path_list))
         IN  (IF bridge_conf.st = "Ok" THEN <<unwrap(bridge_conf.v)>> ELSE <<>>)
                 \o bridge_get_bridges_list(Tail(path_list))

\* bridges_list.iter().find(|x| x.name == bridge_name)
RECURSIVE find_bridge(_, _)
find_bridge(bridges_list, bridge_name) ==
    IF bridges_list = <<>> THEN None
    ELSE IF Head(bridges_list).name = bridge_name THEN Some(Head(bridges_list))
    ELSE find_bridge(Tail(bridges_list), bridge_name)

-----------------------------------------------------------------------------
(* Jails.  A jail directory is held as its name and the raw values of the   *)
(* ip4=, ip=, vnet= and network_type= lines of conf/pot.conf.               *)

\* the address texts of the model and the addresses they denote
AddrText ==
    [s \in {"10.0.0.3", "10.0.0.9", "10.0.1.2"} |->
        CASE s = "10.0.0.3" -> V4(10, 0, 0, 3)
          [] s = "10.0.0.9" -> V4(10, 0, 0, 9)
          [] s = "10.0.1.2" -> V4(10, 0, 1, 2)]

\* IpAddr::from_str(s).ok()
IpAddr_from_str(s) == IF s \in DOMAIN AddrText THEN Some(AddrText[s]) ELSE None

\* one turn of the loop over the jail directories: the jail is pushed,
\* skipped (continue), or the unwrap() of an address that does not parse
\* panics
scan_pot(f) ==
    IF is_some(f.network_type)
    THEN LET nt == unwrap(f.network_type)
         IN  IF nt = "inherit"
             THEN [kind |-> "push",
                   pot |-> [name |-> f.name, ip_addr |-> None, network_type |-> "Inherit"]]
             ELSE IF nt = "alias" THEN [kind |-> "skip"]
             ELSE IF nt \in {"public-bridge", "private-bridge"}
             THEN IF is_some(f.ip)
                  THEN IF is_some(IpAddr_from_str(unwrap(f.ip)))
                       THEN [kind |-> "push",
                             pot |-> [name |-> f.name,
                                      ip_addr |-> IpAddr_from_str(unwrap(f.ip)),
                                      network_type |-> IF nt = "public-bridge"
                                                       THEN "PublicBridge"
                                                       ELSE "PrivateBridge"]]
                       ELSE [kind |-> "panic"]
                  ELSE [kind |-> "skip"]
             ELSE [kind |-> "skip"]
    ELSE IF is_some(f.ip4)
    THEN IF unwrap(f.ip4) = "inherit"
         THEN [kind |-> "push",
               pot |-> [name |-> f.name, ip_addr |-> None, network_type |-> "Inherit"]]
         ELSE IF ~is_some(IpAddr_from_str(unwrap(f.ip4))) THEN [kind |-> "panic"]
         ELSE IF is_some(f.vnet)
         THEN [kind |-> "push",
               pot |-> [name |-> f.name,
                        ip_addr |-> IpAddr_from_str(unwrap(f.ip4)),
                        network_type |-> IF unwrap(f.vnet) = "true"
                                         THEN "PublicBridge" ELSE "Alias"]]
         ELSE [kind |-> "skip"]
    ELSE [kind |-> "skip"]

\* get_pot_conf_list that takes every legacy jail with a vnet line for a
\* PublicBridge jail, whatever the line says
RECURSIVE get_pot_conf_list_vnet_ignored(_)
get_pot_conf_list_vnet_ignored(files) ==
    IF files = <<>> THEN [panic |-> FALSE, v |-> <<>>]
    ELSE LET r    == scan_pot(Head(files))
             rest == get_pot_conf_list_vnet_ignored(Tail(files))
         IN  IF r.kind = "panic" \/ rest.panic THEN [panic |-> TRUE, v |-> <<>>]
             ELSE IF r.kind = "push"
             THEN [panic |-> FALSE,
                   v |-> <<IF r.pot.network_type = "Alias"
                           THEN [r.pot EXCEPT !.network_type = "PublicBridge"]
                           ELSE r.pot>> \o rest.v]
             ELSE rest

\* get_pot_conf_list that gives an inherit jail the address of its ip= line
RECURSIVE get_pot_conf_list_inherit_ip(_)
get_pot_conf_list_inherit_ip(files) ==
    IF files = <<>> THEN [panic |-> FALSE, v |-> <<>>]
    ELSE LET r    == scan_pot(Head(files))
             rest == get_pot_conf_list_inherit_ip(Tail(files))
         IN  IF r.kind = "panic" \/ rest.panic THEN [panic |-> TRUE, v |-> <<>>]
             ELSE IF r.kind = "push"
             THEN [panic |-> FALSE,
                   v |-> <<IF r.pot.network_type = "Inherit" /\ is_some(Head(files).ip)
                           THEN [r.pot EXCEPT !.ip_addr = IpAddr_from_str(unwrap(Head(files).ip))]
                           ELSE r.pot>> \o rest.v]
             ELSE rest

\* get_pot_conf_list: the vector of jails, or a panic
RECURSIVE get_pot_conf_list(_)
get_pot_conf_list(files) ==
    IF files = <<>> THEN [panic |-> FALSE, v |-> <<>>]
    ELSE LET r    == scan_pot(Head(files))
             rest == get_pot_conf_list(Tail(files))
         IN  IF r.kind = "panic" \/ rest.panic THEN [panic |-> TRUE, v |-> <<>>]
             ELSE IF r.kind = "push" THEN [panic |-> FALSE, v |-> <<r.pot>> \o rest.v]
             ELSE rest

-----------------------------------------------------------------------------
(* The IPDB: BTreeMap<IpAddr, Option<String>>, a function from the keys to  *)
(* the labels.  A label is None or Some(text); a text is the sequence of    *)
(* the pieces pushed onto the String.                                       *)

BTreeMap_new == <<>>

insert(m, k, v) == [x \in (DOMAIN m) \cup {k} |-> IF x = k THEN v ELSE m[x]]

contains_key(m, k) == k \in DOMAIN m

\* an entry(k).or_insert_with that replaces the value of a key that is present
or_insert_replacing(m, k, v) == insert(m, k, v)

\* ip_db.entry(k).or_insert_with(|| v)
or_insert(m, k, v) == IF contains_key(m, k) THEN m ELSE insert(m, k, v)

is_bridged(v) == v.network_type = "PublicBridge" \/ v.network_type = "PrivateBridge"

\* the loop over the jails of init_ipdb: every bridged jail is inserted
RECURSIVE insert_pots(_, _)
insert_pots(m, pots) ==
    IF pots = <<>> THEN m
    ELSE LET v == Head(pots)
         IN  insert_pots(IF is_bridged(v)
                         THEN insert(m, unwrap(v.ip_addr), Some(<<v.name>>))
                         ELSE m,
                         Tail(pots))

\* the loop over b.network.hosts() of init_ipdb
RECURSIVE insert_allocated(_, _, _)
insert_allocated(m, hs, description) ==
    IF hs = <<>> THEN m
    ELSE insert_allocated(or_insert(m, Head(hs), Some(description)), Tail(hs), description)

\* insert_bridge without the loop over b.network.hosts()
insert_bridge_no_hosts(m, b) ==
    LET m1 == insert(m, network(b.network), Some(<<b.name, " bridge - network ">>))
        m2 == insert(m1, broadcast(b.network), Some(<<b.name, " bridge - broadcast ">>))
    IN  insert(m2, b.gateway, Some(<<b.name, " bridge - gateway ">>))

\* the body of the loop over the bridges of init_ipdb
insert_bridge(m, b) ==
    LET m1 == insert(m, network(b.network), Some(<<b.name, " bridge - network ">>))
        m2 == insert(m1, broadcast(b.network), Some(<<b.name, " bridge - broadcast ">>))
        m3 == insert(m2, b.gateway, Some(<<b.name, " bridge - gateway ">>))
    IN  insert_allocated(m3, hosts(b.network), <<b.name, " bridge - allocated address">>)

RECURSIVE insert_bridges(_, _)
insert_bridges(m, bridges) ==
    IF bridges = <<>> THEN m
    ELSE insert_bridges(insert_bridge(m, Head(bridges)), Tail(bridges))

\* init_ipdb, given the jails and the bridges it reads
init_ipdb(c, pots, bridges) ==
    LET m1 == insert(BTreeMap_new, network(unwrap(c.network)), None)
        m2 == insert(m1, broadcast(unwrap(c.network)), None)
        m3 == insert(m2, unwrap(c.gateway), Some(<<"default gateway">>))
        m4 == insert(m3, unwrap(c.dns_ip), Some(<<unwrap(c.dns_name)>>))
        m5 == insert_pots(m4, pots)
    IN  insert_bridges(m5, bridges)

\* the loop over the jails of init_bridge_ipdb
RECURSIVE insert_bridge_pots(_, _, _)
insert_bridge_pots(m, bridge, pots) ==
    IF pots = <<>> THEN m
    ELSE LET v == Head(pots)
         IN  insert_bridge_pots(
                 IF is_bridged(v) /\ contains(bridge.network, unwrap(v.ip_addr))
                 THEN insert(m, unwrap(v.ip_addr), Some(<<v.name>>))
                 ELSE m,
                 bridge, Tail(pots))

\* init_bridge_ipdb that takes every bridged jail, as init_ipdb does
init_bridge_ipdb_every_pot(bridge, pots) ==
    LET m1 == insert(BTreeMap_new, network(bridge.network),
                     Some(<<bridge.name, " bridge - network ">>))
        m2 == insert(m1, broadcast(bridge.network),
                     Some(<<bridge.name, " bridge - broadcast ">>))
        m3 == insert(m2, bridge.gateway, Some(<<bridge.name, " bridge - gateway ">>))
    IN  insert_pots(m3, pots)

\* init_bridge_ipdb: the bridge-local IPDB
init_bridge_ipdb(bridge, pots) ==
    LET m1 == insert(BTreeMap_new, network(bridge.network),
                     Some(<<bridge.name, " bridge - network ">>))
        m2 == insert(m1, broadcast(bridge.network),
                     Some(<<bridge.name, " bridge - broadcast ">>))
        m3 == insert(m2, bridge.gateway, Some(<<bridge.name, " bridge - gateway ">>))
    IN  insert_bridge_pots(m3, bridge, pots)

\* ip_db.iter(): the entries in the order of the keys
RECURSIVE iter(_)
iter(m) ==
    IF DOMAIN m = {} THEN <<>>
    ELSE LET k == CHOOSE k \in DOMAIN m : \A x \in DOMAIN m \ {k} : AddrLT(k, x)
         IN  <<[ip |-> k, v |-> m[k]]>> \o iter([x \in DOMAIN m \ {k} |-> m[x]])

-----------------------------------------------------------------------------
(* The queries.                                                             *)

\* IpNet::trunc
trunc(net) == IpNet(network(net), net.prefix_len)

\* the lines "\t{ip}\t{name}" of show and show_bridge, a name that is
\* absent printed as ""
show_lines(m) ==
    [i \in DOMAIN iter(m) |->
        <<"\t", iter(m)[i].ip, "\t",
          IF is_some(iter(m)[i].v) THEN unwrap(iter(m)[i].v) ELSE <<"">> >>]

\* show, at the default log level
show(c, m) ==
    << <<"Network topology:">>,
       <<"\tnetwork : ", trunc(unwrap(c.network))>>,
       <<"\tmin addr: ", network(unwrap(c.network))>>,
       <<"\tmax addr: ", broadcast(unwrap(c.network))>>,
       <<"\nAddresses already taken:">> >> \o show_lines(m)

\* show_bridge: nothing is printed when the bridge is not found
show_bridge(bridges_list, pots, bridge_name) ==
    LET found == find_bridge(bridges_list, bridge_name)
    IN  IF is_some(found)
        THEN show_lines(init_bridge_ipdb(unwrap(found), pots))
        ELSE <<>>

\* the lines "{ip} {hostname}" of etc-hosts
hosts_lines(m) == [i \in DOMAIN iter(m) |-> <<iter(m)[i].ip, " ", iter(m)[i].v>>]

\* the loop over the jails of get_hosts_from_bridge
RECURSIVE insert_private_pots(_, _, _)
insert_private_pots(m, bridge, pots) ==
    IF pots = <<>> THEN m
    ELSE LET v == Head(pots)
         IN  insert_private_pots(
                 IF v.network_type = "PrivateBridge"
                    /\ contains(bridge.network, unwrap(v.ip_addr))
                 THEN insert(m, unwrap(v.ip_addr), v.name)
                 ELSE m,
                 bridge, Tail(pots))

\* the same loop with the test of init_bridge_ipdb: any bridged jail
RECURSIVE insert_bridged_pots(_, _, _)
insert_bridged_pots(m, bridge, pots) ==
    IF pots = <<>> THEN m
    ELSE LET v == Head(pots)
         IN  insert_bridged_pots(
                 IF is_bridged(v) /\ contains(bridge.network, unwrap(v.ip_addr))
                 THEN insert(m, unwrap(v.ip_addr), v.name)
                 ELSE m,
                 bridge, Tail(pots))

\* get_hosts_from_bridge that takes the bridged jails of either type
get_hosts_from_bridge_any_type(bridges_list, pots, bridge_name) ==
    LET found == find_bridge(bridges_list, bridge_name)
    IN  IF is_some(found)
        THEN hosts_lines(insert_bridged_pots(BTreeMap_new, unwrap(found), pots))
        ELSE <<>>

\* get_hosts_from_bridge
get_hosts_from_bridge(bridges_list, pots, bridge_name) ==
    LET found == find_bridge(bridges_list, bridge_name)
    IN  IF is_some(found)
        THEN hosts_lines(insert_private_pots(BTreeMap_new, unwrap(found), pots))
        ELSE <<>>

\* the loop over the jails of get_hosts_for_public_bridge
RECURSIVE insert_public_pots(_, _)
insert_public_pots(m, pots) ==
    IF pots = <<>> THEN m
    ELSE LET v == Head(pots)
         IN  insert_public_pots(IF v.network_type = "PublicBridge"
                                THEN insert(m, unwrap(v.ip_addr), v.name)
                                ELSE m,
                                Tail(pots))

\* get_hosts_for_public_bridge
get_hosts_for_public_bridge(pots) == hosts_lines(insert_public_pots(BTreeMap_new, pots))

\* IpNet::netmask(), as a two's-complement integer of the family's width
\* (255.255.255.224 is -32)
netmask(net) == [fam |-> net.addr.fam, val |-> 0 - Pow2(HostBits(net))]

\* Command::ConfigCheck: an absent dns_ip would panic at its unwrap();
\* exit(1) depends on the gateway and the netmask only
config_check(c) ==
    IF ~is_some(c.dns_ip) THEN "panic"
    ELSE IF \/ ~contains(unwrap(c.network), unwrap(c.gateway))
            \/ netmask(unwrap(c.network)) # unwrap(c.netmask)
    THEN "exit 1"
    ELSE "Ok"

\* first_free with the test of contains_key inverted
RECURSIVE first_free_inverted(_, _)
first_free_inverted(hs, m) ==
    IF hs = <<>> THEN <<>>
    ELSE IF contains_key(m, Head(hs)) THEN <<Head(hs)>>
    ELSE first_free_inverted(Tail(hs), m)

\* the loop of get and of get_next_from_bridge: the first address of hs that
\* is no key of m is printed, and the loop breaks
RECURSIVE first_free(_, _)
first_free(hs, m) ==
    IF hs = <<>> THEN <<>>
    ELSE IF ~contains_key(m, Head(hs)) THEN <<Head(hs)>>
    ELSE first_free(Tail(hs), m)

\* get that prints the first host address, in the IPDB or not
get_ignoring_ipdb(c, m) ==
    IF hosts(unwrap(c.network)) = <<>> THEN <<>> ELSE <<Head(hosts(unwrap(c.network)))>>

\* get: what `next` prints
get(c, m) == first_free(hosts(unwrap(c.network)), m)

\* get_next_from_bridge: what `next -b` prints (nothing for an unknown bridge)
get_next_from_bridge(bridges_list, pots, bridge_name) ==
    LET found == find_bridge(bridges_list, bridge_name)
    IN  IF is_some(found)
        THEN first_free(hosts(unwrap(found).network),
                        init_bridge_ipdb(unwrap(found), pots))
        ELSE <<>>

\* validate with its two tests in the other order
validate_network_first(ip, c, m) ==
    IF ~contains(unwrap(c.network), ip) THEN "Address outside the network"
    ELSE IF contains_key(m, ip) THEN "Address already in use"
    ELSE "Ok"

\* validate
validate(ip, c, m) ==
    IF contains_key(m, ip) THEN "Address already in use"
    ELSE IF ~contains(unwrap(c.network), ip) THEN "Address outside the network"
    ELSE "Ok"

\* validate_with_bridge with the bridge-local IPDB looked at before the network
validate_with_bridge_ipdb_first(bridges_list, pots, bridge_name, ip) ==
    LET found == find_bridge(bridges_list, bridge_name)
    IN  IF is_some(found)
        THEN IF contains_key(init_bridge_ipdb(unwrap(found), pots), ip)
             THEN "Ip already used"
             ELSE IF ~contains(unwrap(found).network, ip)
                  THEN "Ip outside the bridge network"
             ELSE "Ok"
        ELSE "bridge not found"

\* validate_with_bridge
validate_with_bridge(bridges_list, pots, bridge_name, ip) ==
    LET found == find_bridge(bridges_list, bridge_name)
    IN  IF is_some(found)
        THEN IF ~contains(unwrap(found).network, ip) THEN "Ip outside the bridge network"
             ELSE IF contains_key(init_bridge_ipdb(unwrap(found), pots), ip)
                  THEN "Ip already used"
             ELSE "Ok"
        ELSE "bridge not found"

-----------------------------------------------------------------------------
(* get_network_size: the doubling loop, one turn at a time.  max_hosts is a *)
(* u16 and result a u8.  A build with overflow checks panics where an       *)
(* arithmetic operation overflows; a build without them wraps.  The shift   *)
(* `max_hosts <<= 1` drops the high bit in both builds.                     *)

U16 == 65536

U8 == 256

\* max_hosts = 4, result = 2, or the early return for host_number == 0
gns_enter(host_number) ==
    IF host_number = 0
    THEN [st |-> "none", max_hosts |-> 0, result |-> 0]
    ELSE [st |-> "loop", max_hosts |-> 4, result |-> 2]

\* one turn of the loop
gns_turn(host_number, overflow_checks, s) ==
    IF s.max_hosts < 2 /\ overflow_checks
    THEN [s EXCEPT !.st = "panic"]
    ELSE IF host_number <= (s.max_hosts - 2) % U16
    THEN [s EXCEPT !.st = "some"]
    ELSE IF s.result + 1 >= U8 /\ overflow_checks
    THEN [s EXCEPT !.st = "panic"]
    ELSE [st |-> "loop",
          max_hosts |-> (s.max_hosts * 2) % U16,
          result |-> (s.result + 1) % U8]

\* the loop run to its end.  Once max_hosts is 0 it stays 0, so a turn that
\* does not leave the loop then is followed only by such turns: the call
\* never returns.
RECURSIVE gns_run(_, _, _)
gns_run(host_number, overflow_checks, s) ==
    IF s.st # "loop" THEN s
    ELSE LET t == gns_turn(host_number, overflow_checks, s)
         IN  IF s.max_hosts = 0 /\ ~overflow_checks /\ t.st = "loop"
             THEN [s EXCEPT !.st = "diverge"]
             ELSE gns_run(host_number, overflow_checks, t)

get_network_size(host_number, overflow_checks) ==
    gns_run(host_number, overflow_checks, gns_enter(host_number))

\* get_prefix_length: Some(32 or 128 minus the network size) or None; a
\* panic or a call that never returns is passed on
get_prefix_length(host_number, ip_addr, overflow_checks) ==
    LET r == get_network_size(host_number, overflow_checks)
    IN  IF r.st = "some"
        THEN [st |-> "some", prefix_length |-> FamBits(ip_addr.fam) - r.result]
        ELSE [st |-> r.st, prefix_length |-> 0]

\* is_subnet_usable looking only at the subnet's own network address
is_subnet_usable_network_only(subnet, m) == ~contains_key(m, network(subnet))

is_subnet_usable(subnet, m) == \A ip \in DOMAIN m : ~contains(subnet, ip)

RECURSIVE first_usable(_, _)
first_usable(ss, m) ==
    IF ss = <<>> THEN <<>>
    ELSE IF is_subnet_usable(Head(ss), m)
    THEN <<[net |-> Head(ss), gateway |-> hosts(Head(ss))[1]]>>
    ELSE first_usable(Tail(ss), m)

\* new_net: the printed net= and gateway= pair, and how the call ended
new_net(host_number, c, m, overflow_checks) ==
    LET p == get_prefix_length(host_number, unwrap(c.gateway), overflow_checks)
    IN  IF p.st = "some"
        THEN LET ss == subnets(unwrap(c.network), p.prefix_length)
             IN  [out |-> IF is_some(ss) THEN first_usable(unwrap(ss), m) ELSE <<>>,
                  result |-> "Ok"]
        ELSE [out |-> <<>>,
              result |-> IF p.st = "none" THEN "Ok" ELSE p.st]

-----------------------------------------------------------------------------
(* get_value.  A &str is the sequence of its pieces: "=" and " ", on which   *)
(* the code splits, are pieces of their own; every other piece is a run of  *)
(* characters that holds neither.                                           *)

\* s.split(c), collected: the pieces between the occurrences of c
RECURSIVE split(_, _)
split(s, c) ==
    IF \A i \in DOMAIN s : s[i] # c THEN <<s>>
    ELSE LET i == CHOOSE i \in DOMAIN s : s[i] = c /\ \A j \in 1..(i - 1) : s[j] # c
         IN  <<SubSeq(s, 1, i - 1)>> \o split(SubSeq(s, i + 1, Len(s)), c)

\* Iterator::nth(n), counted from 0
nth(pieces, n) == IF n + 1 <= Len(pieces) THEN Some(pieces[n + 1]) ELSE None

\* <String as FromStr>::from_str(value).ok(): a String always parses
parse_String(value) == Some(value)

\* the number written by the digits of value, whose pieces are all "42"
RECURSIVE decimal(_)
decimal(value) ==
    IF value = <<>> THEN 0 ELSE decimal(SubSeq(value, 1, Len(value) - 1)) * 100 + 42

\* <u32 as FromStr>::from_str(value).ok(): one digit at least, digits only,
\* and no more than fit a u32 (twelve digits do not)
parse_u32(value) ==
    IF value # <<>> /\ (\A i \in DOMAIN value : value[i] = "42") /\ Len(value) < 6
    THEN Some(decimal(value))
    ELSE None

\* <IpAddr as FromStr>::from_str(value).ok(): the text of an address and
\* nothing else.  A piece put before or after an address text ("10.0.0.342",
\* "4210.0.0.3", "a10.0.0.3") leaves no address.
parse_IpAddr(value) == IF Len(value) = 1 THEN IpAddr_from_str(value[1]) ELSE None

\* <IpNet as FromStr>::from_str(value).ok(): address/prefix and nothing else;
\* an address without a prefix length is no IpNet
parse_IpNet(value) ==
    IF value = <<"10.0.0.0/27">> THEN Some(IpNet(V4(10, 0, 0, 0), 27)) ELSE None

\* value.parse::<T>().ok()
parse(value, T) ==
    CASE T = "String" -> parse_String(value)
      [] T = "u32"    -> parse_u32(value)
      [] T = "IpAddr" -> parse_IpAddr(value)
      [] T = "IpNet"  -> parse_IpNet(value)

\* get_value::<T>(line)
get_value(line, T) ==
    LET first == nth(split(line, "="), 1)
    IN  IF is_some(first)
        THEN LET second == nth(split(unwrap(first), " "), 0)
             IN  IF is_some(second) THEN parse(unwrap(second), T) ELSE None
        ELSE None

-----------------------------------------------------------------------------
(* The configurations the model is run on.                                  *)

\* longest list of jail directories and of bridge files
MaxJails == 2

MaxBridges == 2

FullConf(net, gw, dns) ==
    [zfs_root |-> Some("zroot/pot"), fs_root |-> Some("/opt/pot"),
     network |-> Some(net), netmask |-> Some(netmask(net)), gateway |-> Some(gw),
     ext_if |-> Some("em0"), dns_name |-> Some("dns"), dns_ip |-> Some(dns)]

Net27 == IpNet(V4(10, 0, 0, 0), 27)

Net30 == IpNet(V4(10, 0, 0, 1), 30)

Net6 == IpNet(V6(16), 124)

DefaultFile == FullConf(Net27, V4(10, 0, 0, 1), V4(10, 0, 0, 2))

\* pairs <<pot.default.conf, pot.conf>>
ConfFiles ==
    { <<DefaultFile, SystemConf_default>>,
      <<DefaultFile, [SystemConf_default EXCEPT !.network = Some(Net30),
                                                !.netmask = Some(netmask(Net30))]>>,
      <<DefaultFile, [SystemConf_default EXCEPT !.network = Some(Net6),
                                                !.netmask = Some(netmask(Net6)),
                                                !.gateway = Some(V6(17)),
                                                !.dns_ip = Some(V6(18))]>>,
      <<DefaultFile, [SystemConf_default EXCEPT !.gateway = Some(V6(17))]>>,
      <<[DefaultFile EXCEPT !.dns_name = None], SystemConf_default>> }

JailFile(n, nt, ip, ip4, vnet) ==
    [name |-> n, network_type |-> nt, ip |-> ip, ip4 |-> ip4, vnet |-> vnet]

JailCandidates ==
    { JailFile("a", Some("public-bridge"), Some("10.0.0.3"), None, None),
      JailFile("b", Some("private-bridge"), Some("10.0.0.9"), None, None),
      JailFile("c", None, None, Some("10.0.1.2"), Some("true")),
      JailFile("d", Some("inherit"), None, None, None) }

BridgeFile(n, net, gw) == [name |-> n, network |-> net, gateway |-> gw]

BridgeCandidates ==
    { BridgeFile(Some("br1"), Some(IpNet(V4(10, 0, 0, 8), 30)), Some(V4(10, 0, 0, 9))),
      BridgeFile(Some("br2"), Some(IpNet(V4(10, 0, 0, 4), 30)), Some(V4(10, 0, 0, 1))),
      BridgeFile(Some("br3"), Some(IpNet(V4(10, 0, 1, 0), 30)), Some(V4(10, 0, 1, 1))),
      BridgeFile(Some("br4"), Some(IpNet(V4(10, 0, 0, 12), 30)), None) }

\* the lists of at most n distinct elements of S, in every order
Lists(S, n) ==
    UNION { { q \in [1..k -> S] : \A i, j \in 1..k : i # j => q[i] # q[j] } : k \in 0..n }

BridgeNames == {"br1", "br2", "br3", "br4"}

QueryAddrs ==
    { V4(10, 0, 0, 0), V4(10, 0, 0, 1), V4(10, 0, 0, 2), V4(10, 0, 0, 3),
      V4(10, 0, 0, 4), V4(10, 0, 0, 9), V4(10, 0, 0, 10), V4(10, 0, 0, 14),
      V4(10, 0, 0, 16), V4(10, 0, 1, 2), V6(19), V6(32) }

HostNumbers == {1, 2, 3, 6, 7, 15, 65535}

-----------------------------------------------------------------------------
(* One invocation of potnet.                                                *)

\* the variables of the single functions, which an invocation leaves alone
pure == <<in_host_number, in_overflow_checks, gns, promoted, in_line, in_target, ret_value,
          ret_bridges, ret_pots, cpu_vars, octet_vars, file_vars>>

NetSizeIdle ==
    /\ in_host_number = 0
    /\ in_overflow_checks = FALSE
    /\ gns = gns_enter(0)

PromotionIdle == promoted = [st |-> "none", v |-> None]

ParseIdle ==
    /\ in_line = <<>>
    /\ in_target = "String"
    /\ ret_value = None

ScanIdle ==
    /\ ret_bridges = [parsed |-> <<>>, v |-> <<>>]
    /\ ret_pots = [panic |-> FALSE, v |-> <<>>]

CpuIdle ==
    /\ ncpu = None
    /\ pot_cpusets = <<>>

OctetsIdle ==
    /\ in_a = <<0, 0, 0, 0>>
    /\ ret_a = <<0, 0, 0, 0>>

FileIdle ==
    /\ in_lines = <<>>
    /\ ret_partial = SystemConf_default

PureIdle ==
    NetSizeIdle /\ PromotionIdle /\ ParseIdle /\ ScanIdle /\ CpuIdle /\ OctetsIdle /\ FileIdle

Init ==
    /\ \E f \in ConfFiles : default_conf = f[1] /\ pot_conf = f[2]
    /\ bridge_files \in Lists(BridgeCandidates, MaxBridges)
    /\ jail_files \in Lists(JailCandidates, MaxJails)
    /\ pc = "start"
    /\ conf = SystemConf_default
    /\ ip_db = BTreeMap_new
    /\ cmd = [name |-> "none"]
    /\ out = <<>>
    /\ result = "running"
    /\ PureIdle

files == <<default_conf, pot_conf, bridge_files, jail_files>>

bridges_now == get_bridges_list(bridge_files)

pots_now == get_pot_conf_list(jail_files).v

\* main, up to the match on the subcommand: the configuration is merged and
\* checked, and the IPDB is built
Main_Start ==
    /\ pc = "start"
    /\ conf' = SystemConf_new(default_conf, pot_conf)
    /\ IF ~is_valid(conf')
       THEN /\ out' = <<"No valid configuration found">>
            /\ result' = "Ok"
            /\ pc' = "done"
            /\ ip_db' = ip_db
       ELSE IF get_pot_conf_list(jail_files).panic
       THEN /\ out' = out
            /\ result' = "panic"
            /\ pc' = "done"
            /\ ip_db' = ip_db
       ELSE /\ out' = out
            /\ result' = result
            /\ pc' = "dispatch"
            /\ ip_db' = init_ipdb(conf', pots_now, bridges_now)
    /\ UNCHANGED <<files, cmd, pure>>

\* Command::Next without a bridge name
Cmd_Next ==
    /\ pc = "dispatch"
    /\ cmd' = [name |-> "next", bridge_name |-> None]
    /\ out' = get(conf, ip_db)
    /\ result' = "Ok"
    /\ pc' = "done"
    /\ UNCHANGED <<files, conf, ip_db, pure>>

\* Command::Next with a bridge name
Cmd_NextBridge ==
    /\ pc = "dispatch"
    /\ \E n \in BridgeNames :
        /\ cmd' = [name |-> "next", bridge_name |-> Some(n)]
        /\ out' = get_next_from_bridge(bridges_now, pots_now, n)
    /\ result' = "Ok"
    /\ pc' = "done"
    /\ UNCHANGED <<files, conf, ip_db, pure>>

\* Command::Validate without a bridge name
Cmd_Validate ==
    /\ pc = "dispatch"
    /\ \E a \in QueryAddrs :
        /\ cmd' = [name |-> "validate", bridge_name |-> None, ip |-> a]
        /\ result' = validate(a, conf, ip_db)
    /\ out' = out
    /\ pc' = "done"
    /\ UNCHANGED <<files, conf, ip_db, pure>>

\* Command::Validate with a bridge name
Cmd_ValidateBridge ==
    /\ pc = "dispatch"
    /\ \E n \in BridgeNames, a \in QueryAddrs :
        /\ cmd' = [name |-> "validate", bridge_name |-> Some(n), ip |-> a]
        /\ result' = validate_with_bridge(bridges_now, pots_now, n, a)
    /\ out' = out
    /\ pc' = "done"
    /\ UNCHANGED <<files, conf, ip_db, pure>>

\* Command::NewNetwork: sizes 0 and 1 exit with status 1
Cmd_NewNetwork ==
    /\ pc = "dispatch"
    /\ \E h \in HostNumbers, overflow_checks \in BOOLEAN :
        /\ cmd' = [name |-> "new-net", host_number |-> h]
        /\ IF h <= 1
           THEN out' = <<>> /\ result' = "exit 1"
           ELSE /\ out' = new_net(h, conf, ip_db, overflow_checks).out
                /\ result' = new_net(h, conf, ip_db, overflow_checks).result
    /\ pc' = "done"
    /\ UNCHANGED <<files, conf, ip_db, pure>>

\* Command::Show without a bridge name
Cmd_Show ==
    /\ pc = "dispatch"
    /\ cmd' = [name |-> "show", bridge_name |-> None]
    /\ out' = show(conf, ip_db)
    /\ result' = "Ok"
    /\ pc' = "done"
    /\ UNCHANGED <<files, conf, ip_db, pure>>

\* Command::Show with a bridge name
Cmd_ShowBridge ==
    /\ pc = "dispatch"
    /\ \E n \in BridgeNames :
        /\ cmd' = [name |-> "show", bridge_name |-> Some(n)]
        /\ out' = show_bridge(bridges_now, pots_now, n)
    /\ result' = "Ok"
    /\ pc' = "done"
    /\ UNCHANGED <<files, conf, ip_db, pure>>

\* Command::ConfigCheck: the three tests are logged, and the gateway and the
\* netmask decide the exit status
Cmd_ConfigCheck ==
    /\ pc = "dispatch"
    /\ cmd' = [name |-> "config-check"]
    /\ out' = out
    /\ result' = config_check(conf)
    /\ pc' = "done"
    /\ UNCHANGED <<files, conf, ip_db, pure>>

\* Command::EtcHosts without a bridge name
Cmd_EtcHosts ==
    /\ pc = "dispatch"
    /\ cmd' = [name |-> "etc-hosts", bridge_name |-> None]
    /\ out' = get_hosts_for_public_bridge(pots_now)
    /\ result' = "Ok"
    /\ pc' = "done"
    /\ UNCHANGED <<files, conf, ip_db, pure>>

\* Command::EtcHosts with a bridge name
Cmd_EtcHostsBridge ==
    /\ pc = "dispatch"
    /\ \E n \in BridgeNames :
        /\ cmd' = [name |-> "etc-hosts", bridge_name |-> Some(n)]
        /\ out' = get_hosts_from_bridge(bridges_now, pots_now, n)
    /\ result' = "Ok"
    /\ pc' = "done"
    /\ UNCHANGED <<files, conf, ip_db, pure>>

Next ==
    \/ Main_Start
    \/ Cmd_Show
    \/ Cmd_ShowBridge
    \/ Cmd_Next
    \/ Cmd_NextBridge
    \/ Cmd_Validate
    \/ Cmd_ValidateBridge
    \/ Cmd_ConfigCheck
    \/ Cmd_NewNetwork
    \/ Cmd_EtcHosts
    \/ Cmd_EtcHostsBridge

Spec == Init /\ [][Next]_vars

\* the variables of an invocation, while a single function is looked at
MainIdle ==
    /\ default_conf = SystemConf_default
    /\ pot_conf = SystemConf_default
    /\ bridge_files = <<>>
    /\ jail_files = <<>>
    /\ conf = SystemConf_default
    /\ ip_db = BTreeMap_new
    /\ cmd = [name |-> "none"]
    /\ out = <<>>
    /\ result = "running"

-----------------------------------------------------------------------------
(* get_network_size, called on its own: one action per turn of its loop.    *)

\* the host numbers get_network_size is called with: the small ones, those
\* around the powers of two, and the top of the u16 range
HostNumberInputs ==
    (0..34) \cup { Pow2(k) - d : k \in 6..15, d \in 1..3 }
            \cup { U16 - d : d \in 1..3 }

InitNetSize ==
    /\ MainIdle
    /\ PromotionIdle
    /\ ParseIdle
    /\ ScanIdle
    /\ CpuIdle
    /\ OctetsIdle
    /\ FileIdle
    /\ pc = "get_network_size"
    /\ in_host_number \in HostNumberInputs
    /\ in_overflow_checks \in BOOLEAN
    /\ gns = [st |-> "call", max_hosts |-> 0, result |-> 0]

\* the call: the early return, or the loop is entered
NetSize_Enter ==
    /\ pc = "get_network_size"
    /\ gns.st = "call"
    /\ gns' = gns_enter(in_host_number)
    /\ UNCHANGED <<files, pc, conf, ip_db, cmd, out, result, in_host_number,
                   in_overflow_checks, promoted, in_line, in_target, ret_value,
                   ret_bridges, ret_pots, cpu_vars, octet_vars, file_vars>>

\* one turn of the loop
NetSize_Turn ==
    /\ pc = "get_network_size"
    /\ gns.st = "loop"
    /\ gns' = gns_turn(in_host_number, in_overflow_checks, gns)
    /\ UNCHANGED <<files, pc, conf, ip_db, cmd, out, result, in_host_number,
                   in_overflow_checks, promoted, in_line, in_target, ret_value,
                   ret_bridges, ret_pots, cpu_vars, octet_vars, file_vars>>

NextNetSize ==
    \/ NetSize_Enter
    \/ NetSize_Turn

\* a call that can take a step takes it
SpecNetSize == InitNetSize /\ [][NextNetSize]_vars /\ WF_vars(NextNetSize)

-----------------------------------------------------------------------------
(* The system configuration on its own: two partial configurations are      *)
(* merged and the result is promoted.                                       *)

Fields ==
    {"zfs_root", "fs_root", "network", "netmask", "gateway", "ext_if", "dns_name", "dns_ip"}

OverrideFile ==
    [zfs_root |-> Some("tank/pot"), fs_root |-> Some("/pot"),
     network |-> Some(Net6), netmask |-> Some(netmask(Net6)), gateway |-> Some(V6(17)),
     ext_if |-> Some("vtnet0"), dns_name |-> Some("ns"), dns_ip |-> Some(V6(18))]

\* the configurations that hold some of the lines of a file
Partials(file) ==
    { [zfs_root |-> IF "zfs_root" \in S THEN file.zfs_root ELSE None,
       fs_root  |-> IF "fs_root" \in S THEN file.fs_root ELSE None,
       network  |-> IF "network" \in S THEN file.network ELSE None,
       netmask  |-> IF "netmask" \in S THEN file.netmask ELSE None,
       gateway  |-> IF "gateway" \in S THEN file.gateway ELSE None,
       ext_if   |-> IF "ext_if" \in S THEN file.ext_if ELSE None,
       dns_name |-> IF "dns_name" \in S THEN file.dns_name ELSE None,
       dns_ip   |-> IF "dns_ip" \in S THEN file.dns_ip ELSE None] : S \in SUBSET Fields }

InitSysConf ==
    /\ default_conf \in Partials(DefaultFile)
    /\ pot_conf \in Partials(OverrideFile)
    /\ bridge_files = <<>>
    /\ jail_files = <<>>
    /\ pc = "merge"
    /\ conf = SystemConf_default
    /\ ip_db = BTreeMap_new
    /\ cmd = [name |-> "none"]
    /\ out = <<>>
    /\ result = "running"
    /\ PureIdle

\* dconf.merge(pconf)
SysConf_Merge ==
    /\ pc = "merge"
    /\ conf' = merge(default_conf, pot_conf)
    /\ pc' = "try_from"
    /\ UNCHANGED <<files, ip_db, cmd, out, result, pure>>

\* PotSystemConfig::try_from(psc)
SysConf_TryFrom ==
    /\ pc = "try_from"
    /\ promoted' = try_from(conf)
    /\ pc' = "promoted"
    /\ UNCHANGED <<files, conf, ip_db, cmd, out, result, in_host_number,
                   in_overflow_checks, gns, in_line, in_target, ret_value,
                   ret_bridges, ret_pots, cpu_vars, octet_vars, file_vars>>

NextSysConf ==
    \/ SysConf_Merge
    \/ SysConf_TryFrom

SpecSysConf == InitSysConf /\ [][NextSysConf]_vars

-----------------------------------------------------------------------------
(* bridge::get_bridges_list on its own.                                     *)

\* what the three lines of a bridge file parse to
BridgeInputs ==
    { BridgeFile(n, net, gw) :
        n \in {None, Some("br1"), Some("br2")},
        net \in {None, Some(IpNet(V4(10, 0, 0, 8), 30)), Some(Net6)},
        gw \in {None, Some(V4(10, 0, 0, 9)), Some(V4(10, 0, 0, 1)), Some(V6(17))} }

InitBridges ==
    /\ default_conf = SystemConf_default
    /\ pot_conf = SystemConf_default
    /\ bridge_files \in Lists(BridgeInputs, MaxBridges)
    /\ jail_files = <<>>
    /\ pc = "get_bridges_list"
    /\ conf = SystemConf_default
    /\ ip_db = BTreeMap_new
    /\ cmd = [name |-> "none"]
    /\ out = <<>>
    /\ result = "running"
    /\ PureIdle

\* every file is parsed, and the ones that parse are returned
Bridges_List ==
    /\ pc = "get_bridges_list"
    /\ ret_bridges' = [parsed |-> [i \in DOMAIN bridge_files |->
                                     BridgeConf_try_from(bridge_files[i])],
                       v |-> bridge_get_bridges_list(bridge_files)]
    /\ pc' = "listed"
    /\ UNCHANGED <<files, conf, ip_db, cmd, out, result, in_host_number,
                   in_overflow_checks, gns, promoted, in_line, in_target, ret_value,
                   ret_pots, cpu_vars, octet_vars, file_vars>>

NextBridges == Bridges_List

SpecBridges == InitBridges /\ [][NextBridges]_vars

-----------------------------------------------------------------------------
(* get_pot_conf_list on its own.                                            *)

\* the pot.conf of one jail directory x, line by line: every network_type,
\* addresses with and without a trailing comment, every vnet
JailInputs ==
    { JailFile("x", nt, ip, ip4, vnet) :
        nt \in {None, Some("inherit"), Some("alias"), Some("public-bridge"),
                Some("private-bridge"), Some("host")},
        ip \in {None, Some("10.0.0.3"), Some("10.0.0.3 # jail")},
        ip4 \in {None, Some("inherit"), Some("10.0.0.9"), Some("10.0.0.9 # jail")},
        vnet \in {None, Some("true"), Some("false")} }

\* s with x put in at place i
InsertAt(s, i, x) == SubSeq(s, 1, i - 1) \o <<x>> \o SubSeq(s, i, Len(s))

\* the directory x at any place among the other jails
ScanInputs ==
    UNION { { InsertAt(base, i, x) : i \in 1..(Len(base) + 1), x \in JailInputs } :
            base \in Lists(JailCandidates, MaxJails - 1) }

InitScan ==
    /\ default_conf = SystemConf_default
    /\ pot_conf = SystemConf_default
    /\ bridge_files = <<>>
    /\ jail_files \in ScanInputs
    /\ pc = "get_pot_conf_list"
    /\ conf = SystemConf_default
    /\ ip_db = BTreeMap_new
    /\ cmd = [name |-> "none"]
    /\ out = <<>>
    /\ result = "running"
    /\ PureIdle

\* the walk over the jail directories
Scan_Pots ==
    /\ pc = "get_pot_conf_list"
    /\ ret_pots' = get_pot_conf_list(jail_files)
    /\ pc' = "scanned"
    /\ UNCHANGED <<files, conf, ip_db, cmd, out, result, in_host_number,
                   in_overflow_checks, gns, promoted, in_line, in_target, ret_value,
                   ret_bridges, cpu_vars, octet_vars, file_vars>>

NextScan == Scan_Pots

SpecScan == InitScan /\ [][NextScan]_vars

-----------------------------------------------------------------------------
(* config-check on its own, over configurations that fail its tests.        *)

\* pot.default.conf with every network, a gateway and a DNS address inside
\* and outside of it and of the other family, a DNS address that is absent,
\* and a netmask that is the network's or another one
CheckConfs ==
    { [FullConf(net, gw, V4(10, 0, 0, 2)) EXCEPT !.dns_ip = dns, !.netmask = Some(mask)] :
        net \in {Net27, Net30, Net6},
        gw \in {V4(10, 0, 0, 1), V4(10, 0, 0, 33), V6(17)},
        dns \in {None, Some(V4(10, 0, 0, 2)), Some(V4(10, 0, 0, 40)), Some(V6(18))},
        mask \in {netmask(Net27), netmask(Net30), netmask(Net6)} }

InitConfigCheck ==
    /\ default_conf \in CheckConfs
    /\ pot_conf = SystemConf_default
    /\ bridge_files = <<>>
    /\ jail_files = <<>>
    /\ pc = "start"
    /\ conf = SystemConf_default
    /\ ip_db = BTreeMap_new
    /\ cmd = [name |-> "none"]
    /\ out = <<>>
    /\ result = "running"
    /\ PureIdle

NextConfigCheck ==
    \/ Main_Start
    \/ Cmd_ConfigCheck

SpecConfigCheck == InitConfigCheck /\ [][NextConfigCheck]_vars

-----------------------------------------------------------------------------
(* Invocations over bridges that overlap.                                   *)

\* the bridges of the invocations, and with them a valid bridge br4 whose
\* network holds the system gateway, the DNS address, a jail and the
\* network of br2, and a second file that names its bridge br1, on the
\* network of br3 with the address of a jail for gateway
OverlapBridgeCandidates ==
    BridgeCandidates \cup
    { BridgeFile(Some("br4"), Some(IpNet(V4(10, 0, 0, 0), 29)), Some(V4(10, 0, 0, 6))),
      BridgeFile(Some("br1"), Some(IpNet(V4(10, 0, 1, 0), 30)), Some(V4(10, 0, 1, 2))) }

\* the jails of the invocations, and a second jail at the address of a
OverlapJailCandidates ==
    JailCandidates \cup { JailFile("e", Some("public-bridge"), Some("10.0.0.3"), None, None) }

InitOverlap ==
    /\ default_conf = DefaultFile
    /\ pot_conf = SystemConf_default
    /\ bridge_files \in Lists(OverlapBridgeCandidates, MaxBridges)
    /\ jail_files \in Lists(OverlapJailCandidates, MaxJails)
    /\ pc = "start"
    /\ conf = SystemConf_default
    /\ ip_db = BTreeMap_new
    /\ cmd = [name |-> "none"]
    /\ out = <<>>
    /\ result = "running"
    /\ PureIdle

\* the IPDB is built and listed
NextLabels ==
    \/ Main_Start
    \/ Cmd_Show
    \/ Cmd_ShowBridge

SpecLabels == InitOverlap /\ [][NextLabels]_vars

\* the IPDB is built and queried
NextOverlap ==
    \/ Main_Start
    \/ Cmd_Next
    \/ Cmd_NextBridge
    \/ Cmd_Validate
    \/ Cmd_ValidateBridge
    \/ Cmd_NewNetwork

SpecOverlap == InitOverlap /\ [][NextOverlap]_vars

-----------------------------------------------------------------------------
(* etc-hosts on its own, over jails that share addresses.                   *)

\* the jails of the invocations, and with them a second public-bridge jail
\* at the address of a, a second private-bridge jail at the address of b,
\* and a legacy jail without vnet=true at that address
HostsJailCandidates ==
    JailCandidates \cup
    { JailFile("e", Some("public-bridge"), Some("10.0.0.3"), None, None),
      JailFile("f", Some("private-bridge"), Some("10.0.0.9"), None, None),
      JailFile("g", None, None, Some("10.0.0.9"), Some("false")) }

InitHosts ==
    /\ default_conf = DefaultFile
    /\ pot_conf = SystemConf_default
    /\ bridge_files \in Lists(BridgeCandidates, MaxBridges)
    /\ jail_files \in Lists(HostsJailCandidates, MaxJails)
    /\ pc = "start"
    /\ conf = SystemConf_default
    /\ ip_db = BTreeMap_new
    /\ cmd = [name |-> "none"]
    /\ out = <<>>
    /\ result = "running"
    /\ PureIdle

NextHosts ==
    \/ Main_Start
    \/ Cmd_EtcHosts
    \/ Cmd_EtcHostsBridge

SpecHosts == InitHosts /\ [][NextHosts]_vars

-----------------------------------------------------------------------------
(* get_value on its own, on the lines k=REST and kREST.                     *)

\* longest REST
MaxRest == 3

\* the pieces of REST
RestChars == {"a", "=", " ", "\"", "#", "42", "10.0.0.3", "10.0.0.0/27"}

\* the types get_value is called for
Targets == {"String", "u32", "IpAddr", "IpNet"}

RestInputs == UNION { [1..n -> RestChars] : n \in 0..MaxRest }

InitParse ==
    /\ MainIdle
    /\ NetSizeIdle
    /\ PromotionIdle
    /\ pc = "get_value"
    /\ ScanIdle
    /\ CpuIdle
    /\ OctetsIdle
    /\ FileIdle
    /\ \E rest \in RestInputs : in_line \in {<<"k", "=">> \o rest, <<"k">> \o rest}
    /\ in_target \in Targets
    /\ ret_value = None

Parse_GetValue ==
    /\ pc = "get_value"
    /\ ret_value' = get_value(in_line, in_target)
    /\ pc' = "parsed"
    /\ UNCHANGED <<files, conf, ip_db, cmd, out, result, in_host_number,
                   in_overflow_checks, gns, promoted, in_line, in_target,
                   ret_bridges, ret_pots, cpu_vars, octet_vars, file_vars>>

NextParse == Parse_GetValue

SpecParse == InitParse /\ [][NextParse]_vars

-----------------------------------------------------------------------------
(* potcpu (src/src/bin/potcpu.rs): the CPU sets of the running jails are    *)
(* read with cpuset, and get-cpu and rebalance work on the number of jails  *)
(* each CPU is allocated to.                                                *)

MaxCpu == 3

MaxPots == 2

\* the names of the running jails, in the order of String::cmp
PotNames == <<"db", "mail", "web">>

\* a.pot_name.cmp(&b.pot_name) is Less
NameLT(a, b) ==
    \E i, j \in DOMAIN PotNames : i < j /\ PotNames[i] = a /\ PotNames[j] = b

\* the CPU lists cpuset prints on a machine of n CPUs: ids below n, each
\* once, ascending
RECURSIVE Ascending(_)
Ascending(S) ==
    IF S = {} THEN <<>>
    ELSE LET c == CHOOSE c \in S : \A d \in S : c <= d
         IN  <<c>> \o Ascending(S \ {c})

CpuLists(n) == { Ascending(S) : S \in SUBSET (0..(n - 1)) }

\* number of times cpu_num occurs in the CPU list of a jail
occurrences(cpus, cpu_num) == Cardinality({ i \in DOMAIN cpus : cpus[i] = cpu_num })

\* the inner loops of get_cpu_allocation, for one CPU: one more for every
\* occurrence of the CPU in the list of any jail
RECURSIVE allocated(_, _, _)
allocated(pots, cpusets, cpu_num) ==
    IF pots = {} THEN 0
    ELSE LET p == CHOOSE p \in pots : TRUE
         IN  occurrences(cpusets[p].cpus, cpu_num) + allocated(pots \ {p}, cpusets, cpu_num)

\* get_cpu_allocation: None when sysctl fails
get_cpu_allocation(n, cpusets) ==
    IF is_some(n)
    THEN Some([c \in 0..(unwrap(n) - 1) |-> allocated(DOMAIN cpusets, cpusets, c)])
    ELSE None

\* the CPUs sorted by their id only
RECURSIVE sorted_by_cpu(_, _)
sorted_by_cpu(S, counters) ==
    IF S = {} THEN <<>>
    ELSE LET c == CHOOSE c \in S : \A d \in S : c <= d
         IN  <<c>> \o sorted_by_cpu(S \ {c}, counters)

\* .sorted_by_key(cpu).sorted_by_key(allocations): both sorts are stable, so
\* the CPUs come by allocations and, among equal allocations, by id
RECURSIVE sorted_by_key(_, _)
sorted_by_key(S, counters) ==
    IF S = {} THEN <<>>
    ELSE LET c == CHOOSE c \in S :
                      \A d \in S \ {c} :
                          \/ counters[c] < counters[d]
                          \/ (counters[c] = counters[d] /\ c < d)
         IN  <<c>> \o sorted_by_key(S \ {c}, counters)

\* get_cpu: the line of CPU ids; nth(0).unwrap() panics once the CPUs are
\* used up; nothing is printed when the allocation cannot be read
get_cpu(n, cpusets, cpu_amount) ==
    LET cpu_hash_counters == get_cpu_allocation(n, cpusets)
    IN  IF is_some(cpu_hash_counters)
        THEN LET sorted_cpus == sorted_by_key(DOMAIN unwrap(cpu_hash_counters),
                                              unwrap(cpu_hash_counters))
             IN  IF cpu_amount > Len(sorted_cpus)
                 THEN [out |-> <<>>, result |-> "panic"]
                 ELSE [out |-> <<SubSeq(sorted_cpus, 1, cpu_amount)>>, result |-> "Ok"]
        ELSE [out |-> <<>>, result |-> "Ok"]

\* get_potcpuconstraints followed by sort_by(pot_name): the jails whose list
\* is not as long as max_cpu, by name
RECURSIVE get_potcpuconstraints(_, _)
get_potcpuconstraints(pots, cpusets) ==
    IF pots = {} THEN <<>>
    ELSE LET p == CHOOSE p \in pots : \A q \in pots \ {p} : NameLT(p, q)
             rest == get_potcpuconstraints(pots \ {p}, cpusets)
         IN  IF Len(cpusets[p].cpus) = cpusets[p].max_cpu
             THEN rest
             ELSE <<[pot_name |-> p, cpus |-> Len(cpusets[p].cpus)]>> \o rest

\* the inner loop of rebalance with a counter that starts anew for each jail
take_from_zero(cpu_index_counter, cpus, n) == [i \in 1..cpus |-> (i - 1) % n]

\* the inner loop of rebalance: pot.cpus CPUs from the counter on, modulo ncpu
take(cpu_index_counter, cpus, n) == [i \in 1..cpus |-> (cpu_index_counter + i - 1) % n]

\* the loop over the constraints of rebalance
RECURSIVE new_allocations(_, _, _)
new_allocations(pot_constraints, cpu_index_counter, n) ==
    IF pot_constraints = <<>> THEN <<>>
    ELSE LET pot == Head(pot_constraints)
         IN  <<[pot_name |-> pot.pot_name,
                cpus |-> take(cpu_index_counter, pot.cpus, n)]>>
             \o new_allocations(Tail(pot_constraints),
                                (cpu_index_counter + pot.cpus) % n, n)

\* the least and the greatest number of the counters
min_allocation(counters) ==
    CHOOSE v \in { counters[c] : c \in DOMAIN counters } :
        \A c \in DOMAIN counters : v <= counters[c]

max_allocation(counters) ==
    CHOOSE v \in { counters[c] : c \in DOMAIN counters } :
        \A c \in DOMAIN counters : v >= counters[c]

\* rebalance goes on unless (max.1 - min.1) < 1
needs_rebalance(counters) == ~(max_allocation(counters) - min_allocation(counters) < 1)

\* rebalance: the lines it prints, those of the new allocation in the order
\* the HashMap pot_new_allocations yields them (order, a permutation)
rebalance(n, cpusets, order) ==
    LET cpu_counters == get_cpu_allocation(n, cpusets)
    IN  IF is_some(cpu_counters)
        THEN IF ~needs_rebalance(unwrap(cpu_counters))
             THEN << <<"no need to rebalance">> >>
             ELSE LET pot_new_allocations ==
                          new_allocations(get_potcpuconstraints(DOMAIN cpusets, cpusets),
                                          0, unwrap(n))
                  IN  [i \in DOMAIN pot_new_allocations |->
                          <<"cpuset -l ", pot_new_allocations[order[i]].cpus,
                            " -j ", pot_new_allocations[order[i]].pot_name>>]
        ELSE <<>>

\* the permutations of 1..k
Orders(k) == { q \in [1..k -> 1..k] : \A i, j \in 1..k : i # j => q[i] # q[j] }

\* what get_cpusets can yield: a CPU list for each of at most MaxPots
\* running jails, on a machine of at most MaxCpu CPUs; nothing when sysctl
\* fails, because get_cpuset then yields None for every jail
CpuSets(n) ==
    UNION { [S -> { [cpus |-> l, max_cpu |-> n] : l \in CpuLists(n) }] :
            S \in { T \in SUBSET { PotNames[i] : i \in DOMAIN PotNames } :
                        Cardinality(T) <= MaxPots } }

InitCpu ==
    /\ MainIdle
    /\ NetSizeIdle
    /\ PromotionIdle
    /\ ParseIdle
    /\ ScanIdle
    /\ OctetsIdle
    /\ FileIdle
    /\ pc = "potcpu"
    /\ \/ ncpu = None /\ pot_cpusets = <<>>
       \/ \E n \in 1..MaxCpu : ncpu = Some(n) /\ pot_cpusets \in CpuSets(n)

\* Command::GetCpu
Cpu_GetCpu ==
    /\ pc = "potcpu"
    /\ \E cpu_amount \in 0..(MaxCpu + 1) :
        /\ cmd' = [name |-> "get-cpu", cpu_amount |-> cpu_amount]
        /\ out' = get_cpu(ncpu, pot_cpusets, cpu_amount).out
        /\ result' = get_cpu(ncpu, pot_cpusets, cpu_amount).result
    /\ pc' = "done"
    /\ UNCHANGED <<files, conf, ip_db, in_host_number, in_overflow_checks, gns, promoted,
                   in_line, in_target, ret_value, ret_bridges, ret_pots, cpu_vars,
                   octet_vars, file_vars>>

\* Command::Rebalance
Cpu_Rebalance ==
    /\ pc = "potcpu"
    /\ cmd' = [name |-> "rebalance"]
    /\ \E order \in Orders(Len(get_potcpuconstraints(DOMAIN pot_cpusets, pot_cpusets))) :
        out' = rebalance(ncpu, pot_cpusets, order)
    /\ result' = "Ok"
    /\ pc' = "done"
    /\ UNCHANGED <<files, conf, ip_db, in_host_number, in_overflow_checks, gns, promoted,
                   in_line, in_target, ret_value, ret_bridges, ret_pots, cpu_vars,
                   octet_vars, file_vars>>

NextCpu ==
    \/ Cpu_GetCpu
    \/ Cpu_Rebalance

SpecCpu == InitCpu /\ [][NextCpu]_vars

-----------------------------------------------------------------------------
(* from_str of PartialSystemConf and of PartialBridgeConf.  A file is the   *)
(* sequence of its lines, a line the sequence of its pieces, as for         *)
(* get_value.                                                               *)

\* str::trim: the spaces at both ends are dropped
RECURSIVE trim(_)
trim(x) ==
    IF x = <<>> THEN x
    ELSE IF Head(x) = " " THEN trim(Tail(x))
    ELSE IF x[Len(x)] = " " THEN trim(SubSeq(x, 1, Len(x) - 1))
    ELSE x

\* x.starts_with('#')
starts_with_hash(x) == x # <<>> /\ Head(x) = "#"

\* linestr.starts_with("KEY=")
starts_with(linestr, key) == Len(linestr) >= 2 /\ linestr[1] = key /\ linestr[2] = "="

\* the lines, trimmed, without those that start with '#'
RECURSIVE lines_of(_)
lines_of(s) ==
    IF s = <<>> THEN <<>>
    ELSE LET x == trim(Head(s))
         IN  (IF starts_with_hash(x) THEN <<>> ELSE <<x>>) \o lines_of(Tail(s))

\* one turn of the loop of PartialSystemConf::from_str
system_line(default, linestr) ==
    [zfs_root |-> IF starts_with(linestr, "POT_ZFS_ROOT")
                  THEN get_value(linestr, "String") ELSE default.zfs_root,
     fs_root  |-> IF starts_with(linestr, "POT_FS_ROOT")
                  THEN get_value(linestr, "String") ELSE default.fs_root,
     ext_if   |-> IF starts_with(linestr, "POT_EXTIF")
                  THEN get_value(linestr, "String") ELSE default.ext_if,
     dns_name |-> IF starts_with(linestr, "POT_DNS_NAME")
                  THEN get_value(linestr, "String") ELSE default.dns_name,
     network  |-> IF starts_with(linestr, "POT_NETWORK")
                  THEN get_value(linestr, "IpNet") ELSE default.network,
     netmask  |-> IF starts_with(linestr, "POT_NETMASK")
                  THEN get_value(linestr, "IpAddr") ELSE default.netmask,
     gateway  |-> IF starts_with(linestr, "POT_GATEWAY")
                  THEN get_value(linestr, "IpAddr") ELSE default.gateway,
     dns_ip   |-> IF starts_with(linestr, "POT_DNS_IP")
                  THEN get_value(linestr, "IpAddr") ELSE default.dns_ip]

RECURSIVE system_lines(_, _)
system_lines(default, lines) ==
    IF lines = <<>> THEN default
    ELSE system_lines(system_line(default, Head(lines)), Tail(lines))

\* PartialSystemConf::from_str(s)
PartialSystemConf_from_str(s) == system_lines(SystemConf_default, lines_of(s))

PartialBridgeConf_default == BridgeFile(None, None, None)

\* one turn of the loop of PartialBridgeConf::from_str
bridge_line(result_, linestr) ==
    [name    |-> IF starts_with(linestr, "name")
                 THEN get_value(linestr, "String") ELSE result_.name,
     network |-> IF starts_with(linestr, "net")
                 THEN get_value(linestr, "IpNet") ELSE result_.network,
     gateway |-> IF starts_with(linestr, "gateway")
                 THEN get_value(linestr, "IpAddr") ELSE result_.gateway]

RECURSIVE bridge_lines(_, _)
bridge_lines(result_, lines) ==
    IF lines = <<>> THEN result_
    ELSE bridge_lines(bridge_line(result_, Head(lines)), Tail(lines))

\* PartialBridgeConf::from_str(s)
PartialBridgeConf_from_str(s) == bridge_lines(PartialBridgeConf_default, lines_of(s))

\* longest file, in lines
MaxLines == 3

\* what stands after the "=" of a line
LineValues == {<<>>, <<"a">>, <<"10.0.0.3">>, <<"10.0.0.0/27">>}

SystemFileLines ==
    { <<k, "=">> \o v : k \in {"POT_FS_ROOT", "POT_NETWORK", "POT_GATEWAY"}, v \in LineValues }
        \cup { <<"#", "POT_GATEWAY", "=", "10.0.0.3">>,
               <<" ", "#", "POT_FS_ROOT", "=", "a">>,
               <<" ", "POT_GATEWAY", "=", "10.0.0.9", " ">>,
               <<"POT_FS_ROOT", "=", "a", " ", "#", " ", "a">> }

BridgeFileLines ==
    { <<k, "=">> \o v : k \in {"name", "net", "gateway"}, v \in LineValues }
        \cup { <<"#", "gateway", "=", "10.0.0.3">>,
               <<" ", "name", "=", "a", " ">> }

\* pot.default.conf, complete
DefaultFileLines ==
    << <<"POT_ZFS_ROOT", "=", "zroot/pot">>, <<"POT_FS_ROOT", "=", "/opt/pot">>,
       <<"POT_EXTIF", "=", "em0">>, <<"POT_NETWORK", "=", "10.0.0.0/27">>,
       <<"POT_NETMASK", "=", "10.0.1.2">>, <<"POT_GATEWAY", "=", "10.0.0.3">>,
       <<"POT_DNS_IP", "=", "10.0.0.9">>, <<"POT_DNS_NAME", "=", "dns">> >>

InitFile ==
    /\ default_conf \in {SystemConf_default, PartialSystemConf_from_str(DefaultFileLines)}
    /\ pot_conf = SystemConf_default
    /\ bridge_files = <<>>
    /\ jail_files = <<>>
    /\ conf = SystemConf_default
    /\ ip_db = BTreeMap_new
    /\ cmd = [name |-> "none"]
    /\ out = <<>>
    /\ result = "running"
    /\ NetSizeIdle
    /\ PromotionIdle
    /\ ParseIdle
    /\ ScanIdle
    /\ CpuIdle
    /\ OctetsIdle
    /\ \/ /\ pc = "from_str"
          /\ in_lines \in UNION { [1..n -> SystemFileLines] : n \in 0..MaxLines }
          /\ ret_partial = SystemConf_default
       \/ /\ pc = "bridge from_str"
          /\ default_conf = SystemConf_default
          /\ in_lines \in UNION { [1..n -> BridgeFileLines] : n \in 0..MaxLines }
          /\ ret_partial = PartialBridgeConf_default

\* PartialSystemConf::from_str(&s) on pot.conf
File_FromStr ==
    /\ pc = "from_str"
    /\ ret_partial' = PartialSystemConf_from_str(in_lines)
    /\ pot_conf' = ret_partial'
    /\ pc' = "file parsed"
    /\ UNCHANGED <<default_conf, bridge_files, jail_files, conf, ip_db, cmd, out, result,
                   in_host_number, in_overflow_checks, gns, promoted, in_line, in_target,
                   ret_value, ret_bridges, ret_pots, cpu_vars, octet_vars, in_lines>>

\* dconf.merge(pconf)
File_Merge ==
    /\ pc = "file parsed"
    /\ conf' = merge(default_conf, pot_conf)
    /\ pc' = "file merged"
    /\ UNCHANGED <<files, ip_db, cmd, out, result, pure>>

\* PartialBridgeConf::from_str(s) on a bridge file
File_BridgeFromStr ==
    /\ pc = "bridge from_str"
    /\ ret_partial' = PartialBridgeConf_from_str(in_lines)
    /\ pc' = "bridge parsed"
    /\ UNCHANGED <<files, conf, ip_db, cmd, out, result, in_host_number, in_overflow_checks,
                   gns, promoted, in_line, in_target, ret_value, ret_bridges, ret_pots,
                   cpu_vars, octet_vars, in_lines>>

NextFile ==
    \/ File_FromStr
    \/ File_Merge
    \/ File_BridgeFromStr

SpecFile == InitFile /\ [][NextFile]_vars

-----------------------------------------------------------------------------
(* octect_incr (src/src/main.rs): the four octets of an IPv4 address are    *)
(* incremented in place.                                                    *)

\* octect_incr that increments the last octet only
octect_incr_last_only(a) == [a EXCEPT ![4] = (a[4] + 1) % 256]

\* the loop `for idx in (0..4).rev()` from the octet idx on (octets are
\* numbered from 1 here); a[idx] += 1 is reached only below 255
RECURSIVE octect_incr_from(_, _)
octect_incr_from(a, idx) ==
    IF idx = 0 THEN a
    ELSE IF a[idx] = 255 THEN octect_incr_from([a EXCEPT ![idx] = 0], idx - 1)
    ELSE [a EXCEPT ![idx] = a[idx] + 1]

octect_incr(a) == octect_incr_from(a, 4)

\* the values an octet is drawn from
OctetValues == {0, 1, 10, 127, 192, 254, 255}

InitOctets ==
    /\ MainIdle
    /\ NetSizeIdle
    /\ PromotionIdle
    /\ ParseIdle
    /\ ScanIdle
    /\ CpuIdle
    /\ FileIdle
    /\ pc = "octect_incr"
    /\ in_a \in [1..4 -> OctetValues]
    /\ ret_a = in_a

Octets_Incr ==
    /\ pc = "octect_incr"
    /\ ret_a' = octect_incr(in_a)
    /\ pc' = "incremented"
    /\ UNCHANGED <<files, conf, ip_db, cmd, out, result, in_host_number, in_overflow_checks,
                   gns, promoted, in_line, in_target, ret_value, ret_bridges, ret_pots,
                   cpu_vars, in_a, file_vars>>

NextOctets == Octets_Incr

SpecOctets == InitOctets /\ [][NextOctets]_vars

-----------------------------------------------------------------------------
(* Properties of one invocation.                                            *)

\* the addresses of a network, and those hosts() yields
AddrSet(net) ==
    { [fam |-> net.addr.fam, val |-> v] : v \in network(net).val..broadcast(net).val }

HostSet(net) == { hosts(net)[i] : i \in DOMAIN hosts(net) }

Least(S) == CHOOSE a \in S : \A b \in S : ~AddrLT(b, a)

\* the IPDB was built and a subcommand has run
Ran(name) == pc = "done" /\ cmd.name = name

\* the bridges and the jails of the configuration, as sets
ValidBridges == { bridges_now[i] : i \in DOMAIN bridges_now }

Pots == { pots_now[i] : i \in DOMAIN pots_now }

\* the network and the IPDB a `next` or `validate` is answered from: the
\* main ones, or those of the first valid bridge of the given name
ScopeFound == cmd.bridge_name = None \/ \E b \in ValidBridges : b.name = unwrap(cmd.bridge_name)

ScopeBridge ==
    bridges_now[CHOOSE i \in DOMAIN bridges_now :
                    /\ bridges_now[i].name = unwrap(cmd.bridge_name)
                    /\ \A j \in 1..(i - 1) : bridges_now[j].name # unwrap(cmd.bridge_name)]

ScopeNet == IF cmd.bridge_name = None THEN unwrap(conf.network) ELSE ScopeBridge.network

ScopeKeys ==
    IF cmd.bridge_name = None THEN DOMAIN ip_db
    ELSE DOMAIN init_bridge_ipdb(ScopeBridge, pots_now)

ScopeFree == { a \in HostSet(ScopeNet) : a \notin ScopeKeys }

\* C1: in both scopes `next` prints exactly the least host address of the
\* queried network that is no key of the scope's IPDB: the address is no key,
\* lies in the network, and every earlier host address is a key.  It prints
\* nothing exactly when every host address is a key.
C1_NextFree ==
    (Ran("next") /\ ScopeFound) =>
        /\ out = (IF ScopeFree = {} THEN <<>> ELSE <<Least(ScopeFree)>>)
        /\ out # <<>> =>
            /\ out[1] \notin ScopeKeys
            /\ out[1] \in AddrSet(ScopeNet)
            /\ \A h \in HostSet(ScopeNet) : AddrLT(h, out[1]) => h \in ScopeKeys
        /\ out = <<>> <=> HostSet(ScopeNet) \subseteq ScopeKeys

\* `next -b` skipped an occupied host address of the bridge before it
\* printed a free one
C1_Witness ==
    /\ Ran("next")
    /\ cmd.bridge_name # None
    /\ out # <<>>
    /\ \E h \in HostSet(ScopeNet) : AddrLT(h, out[1])

\* `next` found every host address of the main network taken
C1_WitnessExhausted == Ran("next") /\ cmd.bridge_name = None /\ out = <<>>

\* the network size of the specification: the smallest k >= 2 with
\* 2^k - 2 >= H
NetworkSizeSpec(H) ==
    CHOOSE k \in 2..17 : Pow2(k) - 2 >= H /\ \A j \in 2..(k - 1) : Pow2(j) - 2 < H

\* the prefix length `new-net` works at, and the subnets of the main network
\* at that prefix length: all of them, and those no key of the IPDB lies in
CarvePrefix == FamBits(unwrap(conf.gateway).fam) - NetworkSizeSpec(cmd.host_number)

CarveCandidates ==
    LET net == unwrap(conf.network)
    IN  IF CarvePrefix < net.prefix_len \/ CarvePrefix > FamBits(net.addr.fam) THEN {}
        ELSE { IpNet(a, CarvePrefix) :
                 a \in { x \in AddrSet(net) :
                           x.val % Pow2(FamBits(net.addr.fam) - CarvePrefix) = 0 } }

CarveFree == { s \in CarveCandidates : DOMAIN ip_db \cap AddrSet(s) = {} }

C2_WitnessNone ==
    /\ Ran("new-net")
    /\ cmd.host_number >= 2
    /\ result = "Ok"
    /\ CarveCandidates # {}
    /\ out = <<>>

\* C4: `validate` without a bridge name fails with "Address already in use"
\* when the address is a key of the main IPDB, also when the address lies
\* outside the main network; otherwise with "Address outside the network"
\* when the main network does not contain it; otherwise it succeeds.  There
\* is no other outcome, and success means in the network and no key.
C4_ValidateNetwork ==
    (Ran("validate") /\ cmd.bridge_name = None) =>
        /\ result = (IF cmd.ip \in DOMAIN ip_db THEN "Address already in use"
                     ELSE IF cmd.ip \notin AddrSet(unwrap(conf.network))
                          THEN "Address outside the network"
                     ELSE "Ok")
        /\ result \in {"Address already in use", "Address outside the network", "Ok"}
        /\ result = "Ok" =>
            /\ cmd.ip \in AddrSet(unwrap(conf.network))
            /\ cmd.ip \notin DOMAIN ip_db

\* `validate` answered for a key of the main IPDB outside the main network
C4_Witness ==
    /\ Ran("validate")
    /\ cmd.bridge_name = None
    /\ cmd.ip \in DOMAIN ip_db
    /\ cmd.ip \notin AddrSet(unwrap(conf.network))
    /\ result = "Address already in use"

\* the three outcomes of `validate -b` for a bridge that was found
BridgeVerdict ==
    IF cmd.ip \notin AddrSet(ScopeNet) THEN "Ip outside the bridge network"
    ELSE IF cmd.ip \in ScopeKeys THEN "Ip already used"
    ELSE "Ok"

\* C5: `validate -b n` fails with "bridge not found" when no valid bridge is
\* named n; otherwise with "Ip outside the bridge network" when the bridge's
\* network does not contain the address; otherwise with "Ip already used"
\* when the address is a key of the bridge-local IPDB; otherwise it
\* succeeds.  The tests come in that order, and the main IPDB plays no part.
C5_ValidateBridge ==
    (Ran("validate") /\ cmd.bridge_name # None) =>
        result = (IF ~ScopeFound THEN "bridge not found" ELSE BridgeVerdict)

\* `validate -b` answered "outside" for a key of the bridge-local IPDB that
\* lies outside the bridge's network (the bridge's gateway)
C5_Witness ==
    /\ Ran("validate")
    /\ cmd.bridge_name # None
    /\ ScopeFound
    /\ cmd.ip \in ScopeKeys
    /\ cmd.ip \notin AddrSet(ScopeNet)
    /\ result = "Ip outside the bridge network"

\* `validate -b` accepted an address that is a key of the main IPDB
C5_WitnessMainKey ==
    /\ Ran("validate")
    /\ cmd.bridge_name # None
    /\ cmd.ip \in DOMAIN ip_db
    /\ result = "Ok"

\* main has built the IPDB
IpdbBuilt == pc = "dispatch" \/ (pc = "done" /\ cmd.name # "none")

\* C6: once the main IPDB is built, every address of the network of every
\* valid bridge (network, broadcast and host addresses) is one of its keys;
\* so `next` without a bridge name never prints an address of a valid
\* bridge's network, and `new-net` never prints a subnet that overlaps one.
C6_BridgeReservation ==
    IpdbBuilt =>
        /\ \A b \in ValidBridges : AddrSet(b.network) \subseteq DOMAIN ip_db
        /\ (Ran("next") /\ cmd.bridge_name = None /\ out # <<>>) =>
            \A b \in ValidBridges : out[1] \notin AddrSet(b.network)
        /\ (Ran("new-net") /\ out # <<>>) =>
            \A b \in ValidBridges : AddrSet(out[1].net) \cap AddrSet(b.network) = {}

\* `next` passed over a host address that is a key only because it belongs
\* to a bridge
C6_Witness ==
    /\ Ran("next")
    /\ cmd.bridge_name = None
    /\ out # <<>>
    /\ \E b \in ValidBridges : \E h \in HostSet(b.network) :
        /\ h \in HostSet(unwrap(conf.network))
        /\ AddrLT(h, out[1])
        /\ ip_db[h] = Some(<<b.name, " bridge - allocated address">>)

\* `new-net` passed over a subnet that overlaps a bridge's network
C6_WitnessNewNet ==
    /\ Ran("new-net")
    /\ out # <<>>
    /\ \E b \in ValidBridges : \E s \in CarveCandidates :
        /\ AddrLT(s.addr, out[1].net.addr)
        /\ AddrSet(s) \cap AddrSet(b.network) # {}

\* the addresses of the main network and of the networks of the valid bridges
Covered ==
    AddrSet(unwrap(conf.network)) \cup UNION { AddrSet(b.network) : b \in ValidBridges }

\* C7: once the main IPDB is built, every key whose label is a jail's name
\* lies in the main network or in the network of a valid bridge; a
\* PublicBridge or PrivateBridge jail whose address lies in neither has put
\* no key into the IPDB.
C7_Containment ==
    IpdbBuilt =>
        /\ \A k \in DOMAIN ip_db :
            (\E v \in Pots : ip_db[k] = Some(<<v.name>>)) => k \in Covered
        /\ \A v \in Pots :
            (is_bridged(v) /\ unwrap(v.ip_addr) \notin Covered) =>
                unwrap(v.ip_addr) \notin DOMAIN ip_db

-----------------------------------------------------------------------------
(* Properties of get_network_size.                                          *)

\* C3: get_network_size returns for every u16 host number: none for 0, and
\* for 1..65535 the smallest k >= 2 with 2^k - 2 >= H, also near the top of
\* the u16 range.
C3_NetworkSize ==
    /\ <>(gns.st \in {"none", "some"})
    /\ [](gns.st = "none" => in_host_number = 0)
    /\ [](gns.st = "some" =>
            /\ in_host_number # 0
            /\ gns.result = NetworkSizeSpec(in_host_number))

-----------------------------------------------------------------------------
(* Properties of the system configuration.                                  *)

SixPresent(c) ==
    /\ c.zfs_root # None
    /\ c.fs_root # None
    /\ c.network # None
    /\ c.netmask # None
    /\ c.gateway # None
    /\ c.ext_if # None

\* C8: the promotion of a merged configuration succeeds exactly when
\* zfs_root, fs_root, network, netmask, gateway and ext_if are present, with
\* or without the DNS pair, and fails with IncompleteSystemConf otherwise;
\* the promoted configuration has dns exactly when dns_name and dns_ip were
\* both present; the promotion never aborts.
C8_Promotion ==
    pc = "promoted" =>
        /\ promoted.st = (IF SixPresent(conf) THEN "Ok" ELSE "IncompleteSystemConf")
        /\ promoted.st = "Ok" =>
            (unwrap(promoted.v).dns # None <=> (conf.dns_name # None /\ conf.dns_ip # None))

\* C9: each of the eight fields of merge(d, x) is x's where x's is present
\* and d's where x's is absent; so merge(d, empty) = d and merge(empty, x) = x.
C9_Merge ==
    pc \in {"try_from", "promoted"} =>
        /\ \A f \in Fields :
            conf[f] = (IF pot_conf[f] # None THEN pot_conf[f] ELSE default_conf[f])
        /\ pot_conf = SystemConf_default => conf = default_conf
        /\ default_conf = SystemConf_default => conf = pot_conf

\* a merge in which a field present on both sides was overridden, a field
\* absent from x was kept, and a field absent from d was taken from x
C9_Witness ==
    /\ pc = "try_from"
    /\ \E f, g, h \in Fields :
        /\ default_conf[f] # None /\ pot_conf[f] # None /\ conf[f] = pot_conf[f]
        /\ conf[f] # default_conf[f]
        /\ default_conf[g] # None /\ pot_conf[g] = None /\ conf[g] = default_conf[g]
        /\ default_conf[h] = None /\ pot_conf[h] # None /\ conf[h] = pot_conf[h]

-----------------------------------------------------------------------------
(* Properties of get_value.                                                 *)

\* REST: what follows the first "=" of the line
Rest(line) ==
    LET i == CHOOSE i \in DOMAIN line : line[i] = "=" /\ \A j \in 1..(i - 1) : line[j] # "="
    IN  SubSeq(line, i + 1, Len(line))

\* s up to its first space, or all of s
UpToSpace(s) ==
    IF \E i \in DOMAIN s : s[i] = " "
    THEN SubSeq(s, 1, (CHOOSE i \in DOMAIN s : s[i] = " " /\ \A j \in 1..(i - 1) : s[j] # " ") - 1)
    ELSE s

\* C10: for a line KEY=REST the raw value is REST up to its first space, or
\* all of REST when it holds no space, for every REST: a further "=" and
\* quote characters are part of the value.
C10_RawValue ==
    (pc = "parsed" /\ in_target = "String" /\ \E i \in DOMAIN in_line : in_line[i] = "=") =>
        ret_value = Some(UpToSpace(Rest(in_line)))

\* C11: get_value yields no value, for every target type, when the line
\* holds no "=", when the value after the "=" is empty, and when the value
\* does not parse as the target type; an empty value leaves a string field
\* absent, not present and empty.
C11_NoValue ==
    pc = "parsed" =>
        ((\/ \A i \in DOMAIN in_line : in_line[i] # "="
          \/ UpToSpace(Rest(in_line)) = <<>>
          \/ parse(UpToSpace(Rest(in_line)), in_target) = None)
            => ret_value = None)

-----------------------------------------------------------------------------
(* Properties of bridge::get_bridges_list.                                  *)

\* a bridge file with its three values, the gateway inside the network
BridgeOk(f) ==
    /\ f.name # None
    /\ f.network # None
    /\ f.gateway # None
    /\ f.gateway[1] \in AddrSet(f.network[1])

\* the places of the files that are in order, and the k-th of them
OkPlaces == { i \in DOMAIN bridge_files : BridgeOk(bridge_files[i]) }

OkPlace(k) == CHOOSE i \in OkPlaces : Cardinality({ j \in OkPlaces : j <= i }) = k

\* C12: a bridge file parses to a bridge exactly when name, net and gateway
\* are all there and the net contains the gateway, and to BridgeConfError
\* otherwise; get_bridges_list returns exactly the bridges of the files that
\* parse, so each returned bridge contains its gateway.
C12_BridgeValidity ==
    pc = "listed" =>
        /\ \A i \in DOMAIN bridge_files :
            /\ ret_bridges.parsed[i].st =
                   (IF BridgeOk(bridge_files[i]) THEN "Ok" ELSE "BridgeConfError")
            /\ BridgeOk(bridge_files[i]) =>
                   ret_bridges.parsed[i].v =
                       Some([name |-> bridge_files[i].name[1],
                             network |-> bridge_files[i].network[1],
                             gateway |-> bridge_files[i].gateway[1]])
        /\ Len(ret_bridges.v) = Cardinality(OkPlaces)
        /\ \A k \in DOMAIN ret_bridges.v :
            /\ ret_bridges.v[k] = ret_bridges.parsed[OkPlace(k)].v[1]
            /\ ret_bridges.v[k].gateway \in AddrSet(ret_bridges.v[k].network)

\* a file with a gateway outside its network was left out, and the file
\* after it was returned
C12_Witness ==
    /\ pc = "listed"
    /\ Len(bridge_files) = 2
    /\ PartialBridgeConf_is_valid(bridge_files[1])
    /\ ~BridgeOk(bridge_files[1])
    /\ Len(ret_bridges.v) = 1
    /\ ret_bridges.v[1].name = bridge_files[2].name[1]

-----------------------------------------------------------------------------
(* The jail scanner.                                                        *)

ScanFiles == { jail_files[i] : i \in DOMAIN jail_files }
ScanPots == { ret_pots.v[i] : i \in DOMAIN ret_pots.v }
Scanned == pc = "scanned" /\ ~ret_pots.panic

\* the pot.conf a returned record was read from (directory names differ)
FileOf(n) == CHOOSE f \in ScanFiles : f.name = n

\* the type the two schemas give a pot.conf: a network_type line decides
\* alone, otherwise the legacy ip4 and vnet lines do; "none" when the jail
\* is skipped
SchemaType(f) ==
    IF f.network_type # None
    THEN CASE f.network_type = Some("inherit") -> "Inherit"
           [] f.network_type = Some("alias") -> "Alias"
           [] f.network_type = Some("public-bridge") -> "PublicBridge"
           [] f.network_type = Some("private-bridge") -> "PrivateBridge"
           [] OTHER -> "none"
    ELSE IF f.ip4 = None THEN "none"
    ELSE IF f.ip4 = Some("inherit") THEN "Inherit"
    ELSE IF f.vnet = None THEN "none"
    ELSE IF f.vnet = Some("true") THEN "PublicBridge"
    ELSE "Alias"

\* the line the address of a jail is read from
SchemaAddr(f) == IF f.network_type # None THEN f.ip ELSE f.ip4

\* C13: every returned jail has the type its pot.conf gets from the
\* network_type line when there is one (the address then comes from ip=
\* only) and from the legacy ip4=/vnet= lines otherwise (ip4=inherit is
\* Inherit; otherwise vnet=true is PublicBridge, any other vnet is Alias and
\* the address is that of ip4=); a jail with another network_type, with
\* neither network_type nor ip4, or with a legacy address and no vnet is
\* not returned.
C13_Classification ==
    Scanned =>
        /\ \A r \in ScanPots :
             /\ r.network_type = SchemaType(FileOf(r.name))
             /\ r.network_type \in {"PublicBridge", "PrivateBridge", "Alias"} =>
                   /\ SchemaAddr(FileOf(r.name)) # None
                   /\ r.ip_addr = IpAddr_from_str(unwrap(SchemaAddr(FileOf(r.name))))
                   /\ r.ip_addr # None
        /\ \A f \in ScanFiles :
             SchemaType(f) = "none" => \A r \in ScanPots : r.name # f.name

\* a legacy jail with vnet=true is returned as PublicBridge at its ip4
\* address although the file has an ip= line too
C13_Witness ==
    /\ Scanned
    /\ \E r \in ScanPots :
         /\ r.name = "x"
         /\ FileOf("x").network_type = None
         /\ FileOf("x").ip = Some("10.0.0.3")
         /\ FileOf("x").ip4 = Some("10.0.0.9")
         /\ r.network_type = "PublicBridge"
         /\ r.ip_addr = Some(V4(10, 0, 0, 9))

\* a pot.conf the scanner can read without stopping: its address line, when
\* the schema needs one, parses
WellFormed(f) ==
    /\ SchemaType(f) \in {"Inherit", "PublicBridge", "PrivateBridge"}
    /\ SchemaType(f) # "Inherit" =>
          /\ SchemaAddr(f) # None
          /\ IpAddr_from_str(unwrap(SchemaAddr(f))) # None

\* C14: the scan always ends with a list; a jail whose pot.conf is
\* malformed (an ip= or ip4= value that is no address included) is left
\* out, and every other jail is returned.
C14_MalformedSkipped ==
    pc = "scanned" =>
        /\ ~ret_pots.panic
        /\ \A f \in ScanFiles : WellFormed(f) => \E r \in ScanPots : r.name = f.name

\* C15: a returned PublicBridge or PrivateBridge jail has an address, and a
\* returned Inherit jail has none, whatever ip= or ip4= lines its file has.
C15_JailConfig ==
    pc = "scanned" =>
        \A r \in ScanPots :
            /\ r.network_type \in {"PublicBridge", "PrivateBridge"} => r.ip_addr # None
            /\ r.network_type = "Inherit" => r.ip_addr = None

\* an inherit jail whose file has an ip= line with an address is returned
\* next to a bridged jail
C15_Witness ==
    /\ Scanned
    /\ \E r \in ScanPots :
         /\ r.name = "x"
         /\ r.network_type = "Inherit"
         /\ FileOf("x").ip = Some("10.0.0.3")
    /\ \E r \in ScanPots : r.network_type = "PrivateBridge" /\ r.ip_addr # None

\* C16: no returned jail has the type Alias.
C16_NoAlias ==
    pc = "scanned" => \A r \in ScanPots : r.network_type # "Alias"

-----------------------------------------------------------------------------
(* etc-hosts.                                                               *)

\* numeric order of two addresses, IPv4 before IPv6
NumLT(x, y) == x.fam < y.fam \/ (x.fam = y.fam /\ x.val < y.val)

\* the places in the list of jails of the PublicBridge jails, of the
\* PrivateBridge jails with an address in net, and of all jails with an
\* address in net
PublicPlaces == { i \in DOMAIN pots_now : pots_now[i].network_type = "PublicBridge" }

PrivatePlaces(net) ==
    { i \in DOMAIN pots_now :
        /\ pots_now[i].network_type = "PrivateBridge"
        /\ unwrap(pots_now[i].ip_addr) \in AddrSet(net) }

ContainedPlaces(net) ==
    { i \in DOMAIN pots_now :
        /\ pots_now[i].ip_addr # None
        /\ unwrap(pots_now[i].ip_addr) \in AddrSet(net) }

\* the printed lines are those of the jails at the places I: one line
\* "{ip} {name}" per address, naming the last jail of that address, in
\* ascending order of the addresses
LinesOf(I) ==
    /\ { out[k][1] : k \in DOMAIN out } = { unwrap(pots_now[i].ip_addr) : i \in I }
    /\ \A k \in DOMAIN out :
         \E i \in I :
            /\ out[k] = <<unwrap(pots_now[i].ip_addr), " ", pots_now[i].name>>
            /\ \A j \in I : j > i => pots_now[j].ip_addr # pots_now[i].ip_addr
    /\ \A k, l \in DOMAIN out : k < l => NumLT(out[k][1], out[l][1])

\* C17 as stated: without a bridge name etc-hosts prints one line per
\* address for exactly the PublicBridge jails; with a bridge name it prints
\* one line for exactly the jails whose address lies in the network of that
\* bridge; the lines are in ascending address order and no Inherit jail has
\* a line.
C17_EtcHostsContained ==
    Ran("etc-hosts") =>
        /\ cmd.bridge_name = None => LinesOf(PublicPlaces)
        /\ (cmd.bridge_name # None /\ ScopeFound) => LinesOf(ContainedPlaces(ScopeNet))
        /\ \A k \in DOMAIN out :
             \A p \in Pots : p.network_type = "Inherit" => out[k][3] # p.name

\* C17: without a bridge name etc-hosts prints one line per address for
\* exactly the PublicBridge jails; with the name of a valid bridge it prints
\* one line per address for exactly the PrivateBridge jails whose address
\* lies in the network of that bridge, and nothing when no valid bridge has
\* the name; a line names the last jail of its address, the lines are in
\* ascending address order and no Inherit jail has a line.
C17_EtcHosts ==
    Ran("etc-hosts") =>
        /\ cmd.bridge_name = None => LinesOf(PublicPlaces)
        /\ (cmd.bridge_name # None /\ ScopeFound) => LinesOf(PrivatePlaces(ScopeNet))
        /\ ~ScopeFound => out = <<>>
        /\ \A k \in DOMAIN out :
             \A p \in Pots : p.network_type = "Inherit" => out[k][3] # p.name

\* two PublicBridge jails scanned in descending order of their addresses
\* are printed in ascending order
C17_Witness ==
    /\ Ran("etc-hosts")
    /\ cmd.bridge_name = None
    /\ Len(pots_now) = 2
    /\ pots_now[1].name = "c"
    /\ pots_now[2].name = "a"
    /\ out = << <<V4(10, 0, 0, 3), " ", "a">>, <<V4(10, 0, 1, 2), " ", "c">> >>

\* with a bridge name the PrivateBridge jail in the bridge's network is
\* printed, next to an Inherit jail that is not
C17_WitnessBridge ==
    /\ Ran("etc-hosts")
    /\ cmd.bridge_name = Some("br1")
    /\ \E p \in Pots : p.network_type = "Inherit"
    /\ out = << <<V4(10, 0, 0, 9), " ", "b">> >>

-----------------------------------------------------------------------------
(* config-check and the exit status.                                        *)

\* a configuration that is complete but for the DNS address
OnlyDnsAbsent(c) ==
    /\ c.dns_ip = None
    /\ is_valid([c EXCEPT !.dns_ip = Some(V4(10, 0, 0, 2))])

\* C18: config-check exits with status 1 exactly when the gateway lies
\* outside the network, or a DNS address is present and lies outside the
\* network, or the netmask is not that of the network; and a configuration
\* without a DNS address does get checked.
C18_ConfigCheck ==
    /\ Ran("config-check") =>
          (result = "exit 1" <=>
              \/ unwrap(conf.gateway) \notin AddrSet(unwrap(conf.network))
              \/ /\ conf.dns_ip # None
                 /\ unwrap(conf.dns_ip) \notin AddrSet(unwrap(conf.network))
              \/ unwrap(conf.netmask) # netmask(unwrap(conf.network)))
    /\ (pc = "done" /\ OnlyDnsAbsent(conf)) => cmd.name = "config-check"

\* C19: when a required field is missing after the merge, the invocation
\* runs no query and ends with exit status 1.
C19_MissingConfFatal ==
    (pc = "done" /\ ~is_valid(conf)) => (cmd.name = "none" /\ result = "exit 1")

-----------------------------------------------------------------------------
(* The order of the IPDB.                                                   *)

\* the addresses of the lines `show` has printed, in the order of the lines
\* (the main listing follows five lines of heading)
ShownKeys ==
    LET lines == IF cmd.bridge_name = None THEN SubSeq(out, 6, Len(out)) ELSE out
    IN  [i \in DOMAIN lines |-> lines[i][2]]

\* C20: the IPDB `show` iterates, the main one or that of a bridge, has one
\* entry per address; the listing has every key once, in strictly
\* increasing numeric order with every IPv4 key before every IPv6 key, and
\* the lines of etc-hosts are in that order too.
C20_IpdbOrder ==
    /\ (Ran("show") /\ ScopeFound) =>
          /\ { ShownKeys[i] : i \in DOMAIN ShownKeys } = ScopeKeys
          /\ Len(ShownKeys) = Cardinality(ScopeKeys)
          /\ \A i, j \in DOMAIN ShownKeys :
                /\ i < j => NumLT(ShownKeys[i], ShownKeys[j])
                /\ (ShownKeys[i].fam = 4 /\ ShownKeys[j].fam = 6) => i < j
    /\ Ran("etc-hosts") =>
          \A k, l \in DOMAIN out : k < l => NumLT(out[k][1], out[l][1])

\* the main IPDB of a configuration with an IPv6 gateway in an IPv4 network
\* is listed: keys of both families, the one of a jail among them
C20_Witness ==
    /\ Ran("show")
    /\ cmd.bridge_name = None
    /\ \E i, j \in DOMAIN ShownKeys : ShownKeys[i].fam = 4 /\ ShownKeys[j].fam = 6
    /\ \E p \in Pots : p.ip_addr # None /\ unwrap(p.ip_addr) \in DOMAIN ip_db
    /\ Len(ShownKeys) >= 5

\* the IPDB of a bridge with a jail is listed
C20_WitnessBridge ==
    /\ Ran("show")
    /\ cmd.bridge_name # None
    /\ ScopeFound
    /\ Len(out) = 4

-----------------------------------------------------------------------------
(* potcpu.                                                                  *)

NCpu == unwrap(ncpu)

CpuIds == 0..(NCpu - 1)

\* the jails whose CPU set is smaller than the CPU count
Constrained ==
    { p \in DOMAIN pot_cpusets : Len(pot_cpusets[p].cpus) < pot_cpusets[p].max_cpu }

\* the number of constrained jails whose CPU set contains c
Load(c) ==
    Cardinality({ p \in Constrained :
                    \E i \in DOMAIN pot_cpusets[p].cpus : pot_cpusets[p].cpus[i] = c })

\* c comes before d: less loaded, or as loaded and of lower id
Before(c, d) == Load(c) < Load(d) \/ (Load(c) = Load(d) /\ c < d)

\* C21: for n from 1 to the CPU count, get-cpu prints n distinct CPU ids, the
\* first n of the CPUs ordered by load (number of constrained jails on the
\* CPU) and then by id: the k-th printed CPU has exactly k - 1 CPUs before it.
C21_GetCpu ==
    (Ran("get-cpu") /\ ncpu # None /\ cmd.cpu_amount \in 1..NCpu) =>
        /\ result = "Ok"
        /\ Len(out) = 1
        /\ Len(out[1]) = cmd.cpu_amount
        /\ \A k \in DOMAIN out[1] :
              /\ out[1][k] \in CpuIds
              /\ Cardinality({ d \in CpuIds : Before(d, out[1][k]) }) = k - 1
        /\ \A k, l \in DOMAIN out[1] : k # l => out[1][k] # out[1][l]

\* two of three CPUs are asked for while a constrained jail sits on CPU 0
\* and an unconstrained jail on all three: CPUs 1 and 2 are printed
C21_Witness ==
    /\ Ran("get-cpu")
    /\ ncpu = Some(3)
    /\ cmd.cpu_amount = 2
    /\ \E p \in Constrained : pot_cpusets[p].cpus = <<0>>
    /\ \E p \in DOMAIN pot_cpusets : p \notin Constrained
    /\ out = << <<1, 2>> >>

\* rebalance printed that there is nothing to do
NoRebalance == Len(out) = 1 /\ Len(out[1]) = 1

MaxLoad == CHOOSE v \in { Load(c) : c \in CpuIds } : \A c \in CpuIds : v >= Load(c)

MinLoad == CHOOSE v \in { Load(c) : c \in CpuIds } : \A c \in CpuIds : v <= Load(c)

\* C22: rebalance reports that there is no need to rebalance, and proposes
\* nothing, exactly when the greatest and the least per-CPU load differ by
\* at most 1.
C22_Threshold ==
    (Ran("rebalance") /\ ncpu # None) => (NoRebalance <=> MaxLoad - MinLoad <= 1)

\* the number of CPUs of the jails of S
RECURSIVE CpuCount(_)
CpuCount(S) ==
    IF S = {} THEN 0
    ELSE LET p == CHOOSE p \in S : TRUE
         IN  Len(pot_cpusets[p].cpus) + CpuCount(S \ {p})

\* where the counter stands when the jail p is visited
StartOf(p) == CpuCount({ q \in Constrained : NameLT(q, p) }) % NCpu

\* the proposed line of the jail p
LineOf(p) == CHOOSE k \in DOMAIN out : out[k][4] = p

\* the number of proposed CPU lists that hold c
ProposedLoad(c) ==
    Cardinality({ k \in DOMAIN out : \E i \in DOMAIN out[k][2] : out[k][2][i] = c })

\* the CPU sets once the proposal is applied
Applied ==
    [p \in DOMAIN pot_cpusets |->
        IF p \in Constrained
        THEN [cpus |-> out[LineOf(p)][2], max_cpu |-> pot_cpusets[p].max_cpu]
        ELSE pot_cpusets[p]]

\* C23: a proposal of rebalance has one line for every constrained jail and
\* no other; the jail gets as many CPUs as it has, the consecutive ones
\* modulo the CPU count from where the counter stands after the jails of
\* smaller name; its CPUs are pairwise distinct, the proposed per-CPU loads
\* differ by at most 1, and the allocation computed for the jails with the
\* proposed sets is the same one.
C23_Assignment ==
    (Ran("rebalance") /\ ncpu # None /\ ~NoRebalance) =>
        /\ Len(out) = Cardinality(Constrained)
        /\ { out[k][4] : k \in DOMAIN out } = Constrained
        /\ \A k \in DOMAIN out :
              /\ Len(out[k][2]) = Len(pot_cpusets[out[k][4]].cpus)
              /\ \A i \in DOMAIN out[k][2] :
                    out[k][2][i] = (StartOf(out[k][4]) + i - 1) % NCpu
              /\ \A i, j \in DOMAIN out[k][2] : i # j => out[k][2][i] # out[k][2][j]
        /\ \A c, d \in CpuIds : ProposedLoad(c) - ProposedLoad(d) <= 1
        /\ LET again == new_allocations(get_potcpuconstraints(DOMAIN Applied, Applied),
                                        0, NCpu)
           IN  { <<again[k].pot_name, again[k].cpus>> : k \in DOMAIN again }
                   = { <<out[k][4], out[k][2]>> : k \in DOMAIN out }

\* two jails of two CPUs each on three CPUs: the second jail's CPUs wrap
\* around, and the lines are printed in the other order
C23_Witness ==
    /\ Ran("rebalance")
    /\ ncpu = Some(3)
    /\ ~NoRebalance
    /\ out = << <<"cpuset -l ", <<2, 0>>, " -j ", "web">>,
                <<"cpuset -l ", <<0, 1>>, " -j ", "db">> >>

-----------------------------------------------------------------------------
(* The labels of the main IPDB and the keys of the bridge-local ones.       *)

\* a step of the build: the address, the label, and whether the step
\* replaces the label of an address that is present
Step(a, l, replaces) == [a |-> a, l |-> l, replaces |-> replaces]

SystemSteps ==
    << Step(network(unwrap(conf.network)), None, TRUE),
       Step(broadcast(unwrap(conf.network)), None, TRUE),
       Step(unwrap(conf.gateway), Some(<<"default gateway">>), TRUE),
       Step(unwrap(conf.dns_ip), Some(<<unwrap(conf.dns_name)>>), TRUE) >>

BridgedPots == SelectSeq(pots_now, LAMBDA v : v.network_type \in {"PublicBridge", "PrivateBridge"})

JailSteps == [i \in DOMAIN BridgedPots |->
                 Step(unwrap(BridgedPots[i].ip_addr), Some(<<BridgedPots[i].name>>), TRUE)]

BridgeSteps(b) ==
    << Step(network(b.network), Some(<<b.name, " bridge - network ">>), TRUE),
       Step(broadcast(b.network), Some(<<b.name, " bridge - broadcast ">>), TRUE),
       Step(b.gateway, Some(<<b.name, " bridge - gateway ">>), TRUE) >>
    \o [i \in DOMAIN hosts(b.network) |->
           Step(hosts(b.network)[i], Some(<<b.name, " bridge - allocated address">>), FALSE)]

RECURSIVE AllBridgeSteps(_)
AllBridgeSteps(bridges) ==
    IF bridges = <<>> THEN <<>>
    ELSE BridgeSteps(Head(bridges)) \o AllBridgeSteps(Tail(bridges))

\* the steps in the order system, jails, bridges
Steps == SystemSteps \o JailSteps \o AllBridgeSteps(bridges_now)

\* the label precedence gives the address a: that of the latest replacing
\* step, and without one that of the earliest step
Precedence(steps, a) ==
    LET replacing == { i \in DOMAIN steps : steps[i].a = a /\ steps[i].replaces }
        any == { i \in DOMAIN steps : steps[i].a = a }
    IN  IF replacing # {}
        THEN steps[CHOOSE i \in replacing : \A j \in replacing : j <= i].l
        ELSE steps[CHOOSE i \in any : \A j \in any : i <= j].l

\* C24: the main IPDB holds the addresses of the build steps, and the label
\* of each is that of the latest step for it in the order network and
\* broadcast, gateway, DNS, jails, bridges (network, broadcast, gateway of
\* each in turn), but for the "allocated address" label of a bridge, which
\* is given only to an address no earlier step has put in.
C24_LabelPrecedence ==
    IpdbBuilt =>
        LET steps == Steps
        IN  /\ DOMAIN ip_db = { steps[i].a : i \in DOMAIN steps }
            /\ \A a \in DOMAIN ip_db : ip_db[a] = Precedence(steps, a)

\* the gateway of a bridge is also the address of a jail and keeps the
\* label of the bridge, while a host address of another bridge keeps the
\* label of the jail that has it
C24_Witness ==
    /\ IpdbBuilt
    /\ \E p \in Pots, b \in ValidBridges :
          /\ p.ip_addr = Some(b.gateway)
          /\ ip_db[b.gateway] = Some(<<b.name, " bridge - gateway ">>)
    /\ \E p \in Pots, b \in ValidBridges :
          /\ p.ip_addr # None
          /\ unwrap(p.ip_addr) \in HostSet(b.network)
          /\ unwrap(p.ip_addr) # b.gateway
          /\ ip_db[unwrap(p.ip_addr)] = Some(<<p.name>>)

\* the addresses of the bridged jails in the network of b
JailAddrsIn(net) ==
    { unwrap(p.ip_addr) : p \in { q \in Pots : /\ q.network_type \in {"PublicBridge", "PrivateBridge"}
                                                /\ unwrap(q.ip_addr) \in AddrSet(net) } }

\* C25: the keys of the bridge-local IPDB of a valid bridge are the network
\* address, the broadcast address and the gateway of the bridge and the
\* addresses of the PublicBridge and PrivateBridge jails in its network, no
\* other; each of them is a key of the main IPDB.
C25_BridgeLocalKeys ==
    IpdbBuilt =>
        \A b \in ValidBridges :
            /\ DOMAIN init_bridge_ipdb(b, pots_now)
                   = {network(b.network), broadcast(b.network), b.gateway}
                     \cup JailAddrsIn(b.network)
            /\ DOMAIN init_bridge_ipdb(b, pots_now) \subseteq DOMAIN ip_db

\* two bridges share an address, which has the label the later one gives
\* it, and two jails share an address, which has the name of the later one
C24_WitnessLater ==
    /\ IpdbBuilt
    /\ Len(bridges_now) = 2
    /\ broadcast(bridges_now[1].network) = broadcast(bridges_now[2].network)
    /\ bridges_now[1].name # bridges_now[2].name
    /\ ip_db[broadcast(bridges_now[2].network)]
           = Some(<<bridges_now[2].name, " bridge - broadcast ">>)
    /\ Len(pots_now) = 2
    /\ pots_now[1].ip_addr = pots_now[2].ip_addr
    /\ pots_now[1].ip_addr # None
    /\ ip_db[unwrap(pots_now[2].ip_addr)] = Some(<<pots_now[2].name>>)

\* a bridge with a jail inside its network, while the system gateway, the
\* DNS address and a jail outside of it are keys of the main IPDB only
C25_Witness ==
    /\ IpdbBuilt
    /\ \E b \in ValidBridges :
          /\ JailAddrsIn(b.network) # {}
          /\ JailAddrsIn(b.network) \subseteq DOMAIN init_bridge_ipdb(b, pots_now)
          /\ unwrap(conf.gateway) \notin DOMAIN init_bridge_ipdb(b, pots_now)
          /\ unwrap(conf.dns_ip) \notin DOMAIN init_bridge_ipdb(b, pots_now)
          /\ \E p \in Pots : /\ p.ip_addr # None
                             /\ unwrap(p.ip_addr) \in DOMAIN ip_db
                             /\ unwrap(p.ip_addr) \notin DOMAIN init_bridge_ipdb(b, pots_now)

-----------------------------------------------------------------------------
(* The order of the directory traversal.                                    *)

\* the orders in which the entries of s can be traversed
Reorderings(s) == { [i \in DOMAIN s |-> s[q[i]]] : q \in Orders(Len(s)) }

\* what the subcommand of the state yields when the bridges are bs, the
\* jails ps and the main IPDB is m
Answer(bs, ps, m) ==
    CASE cmd.name = "next" /\ cmd.bridge_name = None -> get(conf, m)
      [] cmd.name = "next" /\ cmd.bridge_name # None ->
            get_next_from_bridge(bs, ps, unwrap(cmd.bridge_name))
      [] cmd.name = "validate" /\ cmd.bridge_name = None -> validate(cmd.ip, conf, m)
      [] cmd.name = "validate" /\ cmd.bridge_name # None ->
            validate_with_bridge(bs, ps, unwrap(cmd.bridge_name), cmd.ip)
      [] cmd.name = "new-net" /\ cmd.host_number > 1 ->
            [oc \in BOOLEAN |-> new_net(cmd.host_number, conf, m, oc)]
      [] OTHER -> <<>>

\* C26: whatever the order in which the bridge files and the jail
\* directories are traversed, the main IPDB has the same keys and `next`,
\* `validate` and `new-net` yield the same.
C26_OrderIndependent ==
    (pc = "done" /\ cmd.name # "none") =>
        \A bf \in Reorderings(bridge_files), jf \in Reorderings(jail_files) :
            LET bs == get_bridges_list(bf)
                ps == get_pot_conf_list(jf).v
                m  == init_ipdb(conf, ps, bs)
            IN  /\ DOMAIN m = DOMAIN ip_db
                /\ Answer(bs, ps, m) = Answer(bridges_now, pots_now, ip_db)

-----------------------------------------------------------------------------
(* next against validate.                                                   *)

\* C28: an address `next` prints is one `validate` accepts in the same
\* state, and an address `next -b` prints for a bridge is one `validate -b`
\* accepts for that bridge.
C28_NextValidates ==
    (Ran("next") /\ out # <<>>) =>
        IF cmd.bridge_name = None
        THEN validate(out[1], conf, ip_db) = "Ok"
        ELSE validate_with_bridge(bridges_now, pots_now, unwrap(cmd.bridge_name), out[1]) = "Ok"

\* `next` has passed over the address of a jail and printed the one after it
C28_Witness ==
    /\ Ran("next")
    /\ cmd.bridge_name = None
    /\ out = <<V4(10, 0, 0, 4)>>
    /\ V4(10, 0, 0, 3) \in DOMAIN ip_db

\* `next -b` has passed over the gateway of the bridge
C28_WitnessBridge ==
    /\ Ran("next")
    /\ cmd.bridge_name = Some("br1")
    /\ out = <<V4(10, 0, 0, 10)>>

\* C29: an address `next -b` prints or `validate -b` accepts for a bridge
\* has, in the main IPDB of the state, the label of an allocated address of
\* that bridge: it is not the system gateway, the DNS address, the main
\* network or broadcast address, nor the network, broadcast or gateway
\* address of another bridge.
C29_BridgeScopeReserved ==
    /\ (Ran("next") /\ cmd.bridge_name # None /\ out # <<>>) =>
          /\ out[1] \in DOMAIN ip_db
          /\ ip_db[out[1]] = Some(<<unwrap(cmd.bridge_name), " bridge - allocated address">>)
    /\ (Ran("validate") /\ cmd.bridge_name # None /\ result = "Ok") =>
          /\ cmd.ip \in DOMAIN ip_db
          /\ ip_db[cmd.ip] = Some(<<unwrap(cmd.bridge_name), " bridge - allocated address">>)

-----------------------------------------------------------------------------
(* octect_incr.                                                             *)

\* the two halves of the big-endian number of four octets
HighHalf(a) == a[1] * 256 + a[2]

LowHalf(a) == a[3] * 256 + a[4]

\* C27: octect_incr adds one, modulo 2^32, to the big-endian number of the
\* four octets (stated on the two 16-bit halves: the low half is
\* incremented modulo 2^16 and the high half takes the carry); the octets
\* from the last non-255 octet on change, those before it do not.
C27_OctetIncr ==
    pc = "incremented" =>
        /\ \A i \in 1..4 : ret_a[i] \in 0..255
        /\ LowHalf(ret_a) = (LowHalf(in_a) + 1) % 65536
        /\ HighHalf(ret_a)
              = (HighHalf(in_a) + (IF LowHalf(in_a) = 65535 THEN 1 ELSE 0)) % 65536
        /\ \A i \in 1..4 :
              (\E j \in (i + 1)..4 : in_a[j] # 255) => ret_a[i] = in_a[i]

\* the carry runs through two octets: 0.10.255.255 becomes 0.11.0.0
C27_Witness ==
    /\ pc = "incremented"
    /\ in_a = <<0, 10, 255, 255>>
    /\ ret_a = <<0, 11, 0, 0>>

\* 255.255.255.255 wraps to 0.0.0.0
C27_WitnessWrap ==
    /\ pc = "incremented"
    /\ in_a = <<255, 255, 255, 255>>
    /\ ret_a = <<0, 0, 0, 0>>

-----------------------------------------------------------------------------
(* Repeated keys in one file.                                               *)

\* the keys of the system file and of a bridge file: key, field, type
SystemKeys ==
    { <<"POT_ZFS_ROOT", "zfs_root", "String">>, <<"POT_FS_ROOT", "fs_root", "String">>,
      <<"POT_EXTIF", "ext_if", "String">>, <<"POT_DNS_NAME", "dns_name", "String">>,
      <<"POT_NETWORK", "network", "IpNet">>, <<"POT_NETMASK", "netmask", "IpAddr">>,
      <<"POT_GATEWAY", "gateway", "IpAddr">>, <<"POT_DNS_IP", "dns_ip", "IpAddr">> }

BridgeKeys ==
    { <<"name", "name", "String">>, <<"net", "network", "IpNet">>,
      <<"gateway", "gateway", "IpAddr">> }

\* the non-comment lines of the file read that carry the key
LinesWith(key) ==
    { i \in DOMAIN in_lines :
        LET x == trim(in_lines[i])
        IN  Len(x) >= 2 /\ x[1] = key /\ x[2] = "=" }

Last(S) == CHOOSE i \in S : \A j \in S : j <= i

\* the typed parse of a line: absent when the value is empty or does not
\* parse as T
TypedParse(line, T) ==
    LET v == UpToSpace(Rest(line))
    IN  IF v = <<>> THEN None ELSE parse(v, T)

\* the field of every key that stands on several lines is the typed parse
\* of the last of them
LastOccurrence(keys) ==
    \A k \in keys :
        Cardinality(LinesWith(k[1])) >= 2 =>
            ret_partial[k[2]] = TypedParse(trim(in_lines[Last(LinesWith(k[1]))]), k[3])

\* C30: when a recognised key occurs on several non-comment lines of the
\* same system or bridge file, the field is the typed parse of the last
\* such line, so a last occurrence that is empty or unparseable leaves the
\* field absent even if an earlier occurrence parsed; an override field that
\* is absent this way leaves the default's value in place after merge.
C30_RepeatedKeys ==
    /\ pc \in {"file parsed", "file merged"} => LastOccurrence(SystemKeys)
    /\ pc = "bridge parsed" => LastOccurrence(BridgeKeys)
    /\ pc = "file merged" =>
          \A k \in SystemKeys :
              (/\ Cardinality(LinesWith(k[1])) >= 2
               /\ TypedParse(trim(in_lines[Last(LinesWith(k[1]))]), k[3]) = None)
                  => conf[k[2]] = default_conf[k[2]]

====
